---- MODULE Spec2Model ----
(***************************************************************************)
(* council-sim backend: the session store (SimulationManager), the         *)
(* observer fan-out (StreamManager), the websocket endpoint that starts    *)
(* the run task, the run pipeline (run_simulation) and the five-phase      *)
(* debate engine (DebateEngine with its Transcript).                       *)
(*                                                                         *)
(* Scheduling is asyncio's: one thread, a coroutine keeps the processor    *)
(* until it awaits something that is not ready.  An action below is the    *)
(* code a coroutine runs from one such await to the next.  The awaits that *)
(* suspend are the external ones: a websocket accept/receive/send and a    *)
(* call of the generative service.  The asyncio locks of both managers are *)
(* never held across an await, so taking one never suspends.               *)
(***************************************************************************)
EXTENDS Integers, Sequences, FiniteSets, TLC

VARIABLES
    simulations,   \* SimulationManager._simulations: id -> SimulationState
    tasks,         \* the run tasks created for SID, oldest first; the last
                   \* one is SimulationManager._tasks[SID]
    connections,   \* StreamManager._connections: id -> set of websockets
    ws,            \* per websocket: the state of its client and endpoint
    bc,            \* the broadcast loop the run is suspended in, if any
    pc,            \* where the run task resumes
    personas,      \* DebateEngine.personas_list (a sequence of roles)
    phaseIdx,      \* index of Transcript.current_phase in PhaseOrder, 0 before
    turnIdx,       \* turns of the current phase already started
    transcript,    \* DebateEngine.transcript.turns
    fullText,      \* stream_debate_turn's full_text of the turn in progress
    context,       \* the prior-turn lines of the last context payload built
    analysisResult,\* the analysis result in hand: analyze_debate's result,
                   \* then run_simulation's analysis_result
    reply,         \* what the call of an analysis tier came back with, until
                   \* the tier returns
    emitted,       \* typed events the current run has broadcast, in order
    analysisSets,  \* calls of set_analysis made for SID so far
    calls,         \* the calls of the store's mutators made by callers other
                   \* than the run, by caller
    tool           \* the call of the compute_approval_score tool: its
                   \* arguments and, once it has returned, its score

vars == <<simulations, tasks, connections, ws, bc, pc, personas, phaseIdx,
          turnIdx, transcript, fullText, context, analysisResult, reply,
          emitted, analysisSets, calls, tool>>

-----------------------------------------------------------------------------
(* Bounds of the model. *)

\* websocket connections ever opened to the session
NumObservers == 2
\* text fragments a completed generative stream delivers
FragsPerTurn == 1
\* longest persona list handed to an engine that is driven on its own
MaxPersonas == 3

Observers == 1..NumObservers

\* the session of the model, and an id no session was created with
SID == "sim"
None == "None"

-----------------------------------------------------------------------------
(* models/simulation.py, models/debate.py, models/persona.py *)

SimulationStatus ==
    {"setup", "generating_personas", "opening", "public_comment", "rebuttal",
     "council_qa", "deliberation", "analysis", "complete", "error"}

\* DebatePhase, in the order run_debate enters the phases
PhaseOrder ==
    <<"opening", "public_comment", "rebuttal", "council_qa", "deliberation">>

PersonaRole == {"moderator", "petitioner", "resident", "council_member"}

\* an absent AnalysisResult (Python's None)
NoResult ==
    [some |-> FALSE, approval_score |-> 0, approval_label |-> "",
     approval_reasoning |-> "", key_arguments |-> <<>>,
     recommended_rebuttals |-> <<>>, strongest_opposition_point |-> "",
     weakest_opposition_point |-> "", overall_assessment |-> ""]

\* SimulationState as create_simulation builds it
NewSimulationState ==
    [status |-> "setup", personas |-> <<>>, transcript |-> <<>>,
     analysis |-> NoResult, error |-> None]

-----------------------------------------------------------------------------
(* agents/analysis_agent.py and _fallback_analysis of api/websocket.py:    *)
(* what a tier makes of the response it received.  A value of the JSON     *)
(* object is a pair of its kind and its content; "absent" is a key the     *)
(* object does not have.                                                   *)

Absent(zero) == <<"absent", zero>>
Number(n) == <<"number", n>>
String(s) == <<"string", s>>
List(l) == <<"list", l>>
\* a score that is a string float() rejects, and a null score
Word == <<"string", 0>>
Null == <<"null", 0>>

\* the object {}
EmptyObject ==
    [approval_score |-> Absent(0), approval_label |-> Absent(""),
     approval_reasoning |-> Absent(""), key_arguments |-> Absent(<<>>),
     recommended_rebuttals |-> Absent(<<>>),
     strongest_opposition_point |-> Absent(""),
     weakest_opposition_point |-> Absent(""),
     overall_assessment |-> Absent("")]

\* the outcome of a tier's call: it raised, it returned a text without a
\* JSON object in it, or a text with the object data; tier is the attempt
\* that made the call
NoReply == [tier |-> 0, kind |-> "none", data |-> EmptyObject]
Raised == [tier |-> 0, kind |-> "raised", data |-> EmptyObject]
Prose == [tier |-> 0, kind |-> "prose", data |-> EmptyObject]
Object(data) == [tier |-> 0, kind |-> "object", data |-> data]

\* data.get(key, default)
Get(value, default) == IF value[1] = "absent" THEN default ELSE value[2]

\* float(data.get("approval_score", 50)) raises ValueError on a string that
\* is no number and TypeError on null
FloatRaises(data) == data.approval_score[1] \in {"string", "null"}

\* an AnalysisResult whose score field has no bounds
ValidationErrorNever(data) == FALSE

\* approval_score: float = Field(..., ge=0, le=100)
ValidationError(data) ==
    Get(data.approval_score, 50) < 0 \/ Get(data.approval_score, 50) > 100

\* AnalysisResult's own defaults in place of those of data.get
AnalysisResultFieldDefaults(data) ==
    [some |-> TRUE,
     approval_score |-> Get(data.approval_score, 50),
     approval_label |-> Get(data.approval_label, ""),
     approval_reasoning |-> Get(data.approval_reasoning, ""),
     key_arguments |-> Get(data.key_arguments, <<>>),
     recommended_rebuttals |-> Get(data.recommended_rebuttals, <<>>),
     strongest_opposition_point |-> Get(data.strongest_opposition_point, ""),
     weakest_opposition_point |-> Get(data.weakest_opposition_point, ""),
     overall_assessment |-> Get(data.overall_assessment, "")]

\* the AnalysisResult(...) call both tiers make on the parsed object
AnalysisResult(data) ==
    [some |-> TRUE,
     approval_score |-> Get(data.approval_score, 50),
     approval_label |-> Get(data.approval_label, "Uncertain"),
     approval_reasoning |-> Get(data.approval_reasoning, ""),
     key_arguments |-> Get(data.key_arguments, <<>>),
     recommended_rebuttals |-> Get(data.recommended_rebuttals, <<>>),
     strongest_opposition_point |-> Get(data.strongest_opposition_point, ""),
     weakest_opposition_point |-> Get(data.weakest_opposition_point, ""),
     overall_assessment |-> Get(data.overall_assessment, "")]

\* the exceptions _parse_analysis_response lets through: float's ValueError
\* and pydantic's ValidationError are not in its except clause
ParseRaises(r) ==
    /\ r.kind = "object"
    /\ \/ r.data.approval_score[1] = "string"
       \/ ~FloatRaises(r.data) /\ ValidationError(r.data)

\* None without a JSON object and on the TypeError of a null score
_parse_analysis_response(r) ==
    IF r.kind # "object" \/ r.data.approval_score[1] = "null"
    THEN NoResult
    ELSE AnalysisResult(r.data)

\* the first tier: "except Exception" returns None
analyze_debate_with_sdk(r) ==
    IF r.kind = "raised" \/ ParseRaises(r)
    THEN NoResult
    ELSE _parse_analysis_response(r)

\* the second tier: None without a JSON object and on every exception
_fallback_analysis(r) ==
    IF r.kind # "object" \/ FloatRaises(r.data) \/ ValidationError(r.data)
    THEN NoResult
    ELSE AnalysisResult(r.data)

\* orchestrator.analyze_debate returns what analyze_debate_with_sdk returned
analyze_debate(r) == analyze_debate_with_sdk(r)

-----------------------------------------------------------------------------
(* agents/tools/scoring.py: compute_approval_score.  A score is written in *)
(* hundredths, the score of the tool's text in tenths.                      *)

\* the factors, in the order of the weights dict
Factors ==
    <<"petitioner_argument_quality", "opposition_strength",
      "council_receptiveness", "economic_benefit_clarity",
      "environmental_mitigation", "community_benefit_offered">>

FactorNames == {Factors[k] : k \in DOMAIN Factors}

\* weights that all count for the proposal
weights_all_positive ==
    [petitioner_argument_quality |-> 25, opposition_strength |-> 20,
     council_receptiveness |-> 20, economic_benefit_clarity |-> 15,
     environmental_mitigation |-> 10, community_benefit_offered |-> 10]

\* the weights, in hundredths
weights ==
    [petitioner_argument_quality |-> 25, opposition_strength |-> -20,
     council_receptiveness |-> 20, economic_benefit_clarity |-> 15,
     environmental_mitigation |-> 10, community_benefit_offered |-> 10]

\* the values of a factor the tool is called with: the ends and the middle
\* of the schema's range 0..10 and a value on either side of the middle
FactorValues == {0, 3, 5, 8, 10}

\* `raw_score = 50.0`
Baseline == 5000

\* args.get(factor, 5.0)
args_get(args, factor) == Get(args[factor], 5)

\* raw_score after the first k rounds of the loop:
\* `raw_score += (value - 5.0) * weight * 10`
RECURSIVE raw_score(_, _)
raw_score(args, k) ==
    IF k = 0
    THEN Baseline
    ELSE raw_score(args, k - 1)
           + (args_get(args, Factors[k]) - 5) * weights[Factors[k]] * 10

Min(a, b) == IF a < b THEN a ELSE b
Max(a, b) == IF a > b THEN a ELSE b

\* `score = max(0.0, min(100.0, raw_score))`
score(args) == Max(0, Min(10000, raw_score(args, Len(Factors))))

\* f"{score:.1f}": a score in hundredths rounded to tenths, a tie to the
\* even tenth
Format1f(h) ==
    IF h % 10 = 5
    THEN IF (h \div 10) % 2 = 0 THEN h \div 10 ELSE h \div 10 + 1
    ELSE (h + 5) \div 10

\* no call of the tool
NotComputed ==
    [args |-> [f \in FactorNames |-> Absent(0)], returned |-> FALSE,
     score |-> 0]

-----------------------------------------------------------------------------
(* services/simulation_manager.py: every mutator looks the id up and is a  *)
(* no-op when it is unknown.                                               *)

\* create_simulation: the new state is stored under its id (a fresh uuid4)
create_simulation(sims, id) ==
    [i \in DOMAIN sims \cup {id} |->
       IF i = id THEN NewSimulationState ELSE sims[i]]

\* an update_status that creates the session it does not find
update_status_upsert(sims, id, status) ==
    IF id \in DOMAIN sims
    THEN [sims EXCEPT ![id].status = status]
    ELSE [i \in DOMAIN sims \cup {id} |->
            IF i = id
            THEN [NewSimulationState EXCEPT !.status = status]
            ELSE sims[i]]

update_status(sims, id, status) ==
    IF id \in DOMAIN sims THEN [sims EXCEPT ![id].status = status] ELSE sims

update_personas(sims, id, ps) ==
    IF id \in DOMAIN sims THEN [sims EXCEPT ![id].personas = ps] ELSE sims

\* a store that keeps only the latest turn
add_transcript_turn_latest(sims, id, turn) ==
    IF id \in DOMAIN sims
    THEN [sims EXCEPT ![id].transcript = <<turn>>]
    ELSE sims

add_transcript_turn(sims, id, turn) ==
    IF id \in DOMAIN sims
    THEN [sims EXCEPT ![id].transcript = Append(@, turn)]
    ELSE sims

set_analysis(sims, id, a) ==
    IF id \in DOMAIN sims THEN [sims EXCEPT ![id].analysis = a] ELSE sims

\* set_error recording the message and leaving the status
set_error_message_only(sims, id, msg) ==
    IF id \in DOMAIN sims THEN [sims EXCEPT ![id].error = msg] ELSE sims

set_error(sims, id, msg) ==
    IF id \in DOMAIN sims
    THEN [sims EXCEPT ![id].status = "error", ![id].error = msg]
    ELSE sims

\* get_task: the registered task, None when none was registered
get_task == IF tasks = <<>> THEN None ELSE tasks[Len(tasks)]

\* register_task overwrites the registration with the new task
register_task(ts) == Append(ts, "running")

ActiveTasks == {i \in DOMAIN tasks : tasks[i] = "running"}

\* callers of the store other than the run: each makes one call of a mutator
NumCallers == 3

Callers == 1..NumCallers

\* the call of a caller: the mutator, the id it was called with, and whether
\* a session of that id existed when it was called
NotCalled == [op |-> "", id |-> "", known |-> FALSE]

NoCalls == [c \in Callers |-> NotCalled]

-----------------------------------------------------------------------------
(* services/stream_manager.py.  A websocket is "new" before it connects,   *)
(* "open" while its endpoint listens and its client is there, "gone" once  *)
(* the client has left (a send to it raises) and "closed" once the         *)
(* endpoint has run its disconnect.                                        *)

\* the connection map without an entry
NoEntries == [id \in {} |-> {}]

\* The broadcast the run is suspended in: the size the iterator noted, the
\* websockets it is past, dead_connections, and whether the set it walks was
\* deleted from the map; besides, what became of the message: the
\* websockets that were sent it, those whose send raised, and those that
\* connected only while it was under way.
BcNone ==
    [active |-> FALSE, used |-> 0, passed |-> {}, dead |-> {},
     detached |-> FALSE, got |-> {}, failed |-> {}, late |-> {}]

\* the websockets registered for SID
Conns == IF SID \in DOMAIN connections THEN connections[SID] ELSE {}

\* `for ws in self._connections[...]`: the set iterator raises RuntimeError
\* when the size of the set it walks differs from the size it started with
SetChanged ==
    bc.active /\ (bc.detached \/ Cardinality(Conns) # bc.used)

\* the iterator is exhausted: the loop of the suspended broadcast ends
LoopEnds == bc.active /\ ~SetChanged /\ Conns \subseteq bc.passed

\* the run task can go on: it is not inside a broadcast, or the broadcast it
\* awaits returns
Resumes == ~bc.active \/ LoopEnds

\* broadcast, after its loop: dead connections are subtracted from the set;
\* the entry stays even when the set is left empty
Cleaned ==
    IF bc.active /\ bc.dead # {} /\ SID \in DOMAIN connections
    THEN [connections EXCEPT ![SID] = @ \ bc.dead]
    ELSE connections

\* ws.send_text inside the loop: it raises for a client that is gone, and
\* the websocket is then collected in dead_connections
SendFails(w) == ws[w] = "gone"

\* broadcast(SID, ...) called with the connection map c: returns at once
\* when SID has no entry or an empty set, else sends to the first websocket
\* of the iteration and suspends in that send
broadcast(c) ==
    /\ connections' = c
    /\ IF SID \notin DOMAIN c \/ c[SID] = {}
       THEN bc' = BcNone
       ELSE \E w \in c[SID] :
              bc' = [active |-> TRUE, used |-> Cardinality(c[SID]),
                     passed |-> {w},
                     dead |-> IF SendFails(w) THEN {w} ELSE {},
                     detached |-> FALSE,
                     got |-> IF SendFails(w) THEN {} ELSE {w},
                     failed |-> IF SendFails(w) THEN {w} ELSE {},
                     late |-> {}]

\* an action of the run that broadcasts nothing
NoBroadcast == connections' = Cleaned /\ bc' = BcNone

-----------------------------------------------------------------------------
(* debate/personas.py, agents/orchestrator.py: the persona list.           *)

create_default_personas ==
    <<"moderator", "petitioner", "resident", "resident", "resident">>

\* generate_personas_with_sdk returned None (written as the empty list,
\* which `if personas:` treats alike)
NoAnswer == <<>>

\* what generate_personas_with_sdk returns in the pipeline: None, or a parsed
\* list of at least three personas, here a cast like the default one, without
\* and with a council member (the engine is driven with every other cast in
\* SpecEngine)
SdkAnswers ==
    {NoAnswer,
     <<"moderator", "petitioner", "resident", "resident", "resident">>,
     <<"moderator", "petitioner", "resident", "resident", "resident",
       "council_member">>}

HasRole(ps, role) == \E i \in DOMAIN ps : ps[i] = role

\* a generate_personas that hands the SDK's list on as it is
generate_personas_as_is(answer) ==
    IF answer # NoAnswer
    THEN answer
    ELSE Append(create_default_personas, "council_member")

\* generate_personas: the SDK's list with a council member appended when it
\* has none, else the defaults plus the default council member
generate_personas(answer) ==
    IF answer # NoAnswer
    THEN IF HasRole(answer, "council_member")
         THEN answer
         ELSE Append(answer, "council_member")
    ELSE Append(create_default_personas, "council_member")

-----------------------------------------------------------------------------
(* debate/engine.py: who speaks in a phase.  A persona is named by its     *)
(* position in the persona list.                                           *)

\* _get_persona_by_role: the first persona of the role, as a list of zero or
\* one persona
_get_persona_by_role(ps, role) ==
    IF HasRole(ps, role)
    THEN <<CHOOSE i \in DOMAIN ps :
             ps[i] = role /\ \A j \in 1..(i - 1) : ps[j] # role>>
    ELSE <<>>

IndexSeq(n) == [i \in 1..n |-> i]

\* _get_personas_by_role: every persona of the role, in list order
_get_personas_by_role(ps, role) ==
    SelectSeq(IndexSeq(Len(ps)), LAMBDA i : ps[i] = role)

\* an opening in which every moderator and petitioner speaks, in list order
_run_opening_phase_by_list(ps) ==
    SelectSeq(IndexSeq(Len(ps)),
              LAMBDA i : ps[i] \in {"moderator", "petitioner"})

_run_opening_phase(ps) ==
    _get_persona_by_role(ps, "moderator")
        \o _get_persona_by_role(ps, "petitioner")

\* a public comment in which only the first resident speaks
_run_public_comment_phase_first(ps) == _get_persona_by_role(ps, "resident")

_run_public_comment_phase(ps) == _get_personas_by_role(ps, "resident")

\* a rebuttal in which every petitioner speaks
_run_rebuttal_phase_all(ps) == _get_personas_by_role(ps, "petitioner")

_run_rebuttal_phase(ps) == _get_persona_by_role(ps, "petitioner")

\* a council Q&A of a single exchange
_run_council_qa_phase_once(ps) ==
    _get_persona_by_role(ps, "council_member")
        \o _get_persona_by_role(ps, "petitioner")

\* a council Q&A whose petitioner sub-turns do not depend on a council member
_run_council_qa_phase_unguarded(ps) ==
    LET council == _get_persona_by_role(ps, "council_member")
        petitioner == _get_persona_by_role(ps, "petitioner")
    IN  council \o petitioner \o council \o petitioner

_run_council_qa_phase(ps) ==
    LET council == _get_persona_by_role(ps, "council_member")
        petitioner == _get_persona_by_role(ps, "petitioner")
    IN  IF council # <<>>
        THEN council \o petitioner \o council \o petitioner
        ELSE <<>>

\* a deliberation the council member opens
_run_deliberation_phase_council_first(ps) ==
    _get_persona_by_role(ps, "council_member")
        \o _get_persona_by_role(ps, "moderator")

_run_deliberation_phase(ps) ==
    _get_persona_by_role(ps, "moderator")
        \o _get_persona_by_role(ps, "council_member")

\* the speakers of the k-th phase of run_debate, in speaking order
PhaseSpeakers(ps, k) ==
    CASE k = 1 -> _run_opening_phase(ps)
      [] k = 2 -> _run_public_comment_phase(ps)
      [] k = 3 -> _run_rebuttal_phase(ps)
      [] k = 4 -> _run_council_qa_phase(ps)
      [] k = 5 -> _run_deliberation_phase(ps)
      [] OTHER -> <<>>

-----------------------------------------------------------------------------
(* debate/transcript.py: the context payload.  A text is a sequence of     *)
(* characters; a character is a number, 0 standing for ".".                *)

TruncateLimit == 300

Ellipsis == <<0, 0, 0>>

\* a truncation that cuts at the limit and marks nothing
_truncate_cut(text, max_length) ==
    IF Len(text) <= max_length
    THEN text
    ELSE SubSeq(text, 1, max_length)

_truncate(text, max_length) ==
    IF Len(text) <= max_length
    THEN text
    ELSE SubSeq(text, 1, max_length - 3) \o Ellipsis

\* PHASE_INSTRUCTIONS: the (phase, role) pairs that have an instruction
PHASE_INSTRUCTIONS ==
    {<<"opening", "moderator">>, <<"opening", "petitioner">>,
     <<"public_comment", "resident">>, <<"rebuttal", "petitioner">>,
     <<"council_qa", "council_member">>, <<"council_qa", "petitioner">>,
     <<"deliberation", "moderator">>, <<"deliberation", "council_member">>}

\* a context that renders the latest turn only
_build_meeting_context_latest(turns, role, phase) ==
    [prior |-> IF turns = <<>>
               THEN <<>>
               ELSE <<[name |-> turns[Len(turns)].persona_id,
                       role |-> turns[Len(turns)].persona_role,
                       text |-> turns[Len(turns)].content]>>,
     phase |-> phase,
     instruction |-> <<phase, role>> \in PHASE_INSTRUCTIONS]

\* _build_meeting_context: one line per turn of the transcript, in order,
\* then the phase and the instruction of the speaker's role, if any
_build_meeting_context(turns, role, phase) ==
    [prior |-> [i \in 1..Len(turns) |->
                  [name |-> turns[i].persona_id,
                   role |-> turns[i].persona_role,
                   text |-> _truncate(turns[i].content, TruncateLimit)]],
     phase |-> phase,
     instruction |-> <<phase, role>> \in PHASE_INSTRUCTIONS]

NoContext == [prior |-> <<>>, phase |-> "", instruction |-> FALSE]

-----------------------------------------------------------------------------
(* The events of a run that carry a phase or a turn.  A turn of a run is   *)
(* named by its number in the run; with the run's number that is its id    *)
(* (uuid4 in the code: fresh for every turn).                              *)

\* an event with the text it carries: the fragment of a token, the full text
\* of a speaking_end
TextEvent(type, phase, turn, text) ==
    [type |-> type, phase |-> phase, turn |-> turn, text |-> text]

Event(type, phase, turn) == TextEvent(type, phase, turn, <<>>)

RunNo == Len(tasks)

\* the turn _run_turn is working on, or will start next
CurTurn == Len(transcript) + 1

TurnId(run, n) == <<run, n>>

\* the k-th fragment the generative service streams for a turn: one
\* character that no other turn of the session has
Fragment(run, n, k) == <<(run * 100 + n) * 10 + k>>

Phase == IF phaseIdx \in DOMAIN PhaseOrder THEN PhaseOrder[phaseIdx] ELSE ""

Speakers == PhaseSpeakers(personas, phaseIdx)

\* the persona of the turn in progress
Speaker == Speakers[turnIdx]

\* on_speaking_end, after its broadcast: the turn is stored in the session
StoredTurn(t) ==
    [turn_id |-> t.id, persona_id |-> t.persona_id, full_text |-> t.content]

\* the session store once the callback suspended in a speaking_end broadcast
\* has returned
AfterTurnEnd ==
    IF pc = "turn_ended"
    THEN add_transcript_turn(simulations, SID,
                             StoredTurn(transcript[Len(transcript)]))
    ELSE simulations

-----------------------------------------------------------------------------
Init ==
    /\ simulations = (SID :> NewSimulationState)
    /\ tasks = <<>>
    /\ connections = NoEntries
    /\ ws = [o \in Observers |-> "new"]
    /\ bc = BcNone
    /\ pc = "idle"
    /\ personas = <<>>
    /\ phaseIdx = 0
    /\ turnIdx = 0
    /\ transcript = <<>>
    /\ fullText = <<>>
    /\ context = NoContext
    /\ analysisResult = NoResult
    /\ reply = NoReply
    /\ emitted = <<>>
    /\ analysisSets = 0
    /\ calls = NoCalls
    /\ tool = NotComputed

runLocals ==
    <<pc, personas, phaseIdx, turnIdx, transcript, fullText, context,
      analysisResult, reply, emitted>>

\* the locals of a run that has not reached the engine: no personas, no
\* engine and no transcript yet
FreshLocals ==
    /\ personas' = <<>>
    /\ phaseIdx' = 0
    /\ turnIdx' = 0
    /\ transcript' = <<>>
    /\ fullText' = <<>>
    /\ context' = NoContext
    /\ analysisResult' = NoResult
    /\ reply' = NoReply
    /\ emitted' = <<>>

\* the task ends: the coroutine's frame, with the engine and its
\* transcript, is dropped
TaskEnds ==
    /\ pc' = "done"
    /\ tasks' = [tasks EXCEPT ![Len(tasks)] = "done"]
    /\ FreshLocals

-----------------------------------------------------------------------------
(* api/websocket.py: websocket_endpoint, and the stream manager's connect  *)
(* and disconnect it calls.                                                *)

\* an endpoint that starts a run on every connection
should_start_always == TRUE

\* `existing_task is None or existing_task.done()`
should_start == get_task = None \/ get_task = "done"

\* connect: the websocket joins the set of SID, created when missing
connect(c, o) ==
    IF SID \in DOMAIN c THEN [c EXCEPT ![SID] = @ \cup {o}] ELSE (SID :> {o})

\* disconnect: the websocket leaves the set, and an emptied set is deleted
disconnect(c, o) ==
    IF SID \notin DOMAIN c
    THEN c
    ELSE IF c[SID] \ {o} = {} THEN NoEntries ELSE [c EXCEPT ![SID] = @ \ {o}]

\* The endpoint, from the accepted connection to its receive loop: connect,
\* then (without an await in between) the check of the registered task and,
\* when none is running, create_task and register_task.  A websocket that
\* joins the set a suspended broadcast is walking lands before or behind the
\* iterator, as its hash decides.
WsConnect(o) ==
    /\ ws[o] = "new"
    /\ \A j \in 1..(o - 1) : ws[j] # "new"
    /\ SID \in DOMAIN simulations
    /\ ws' = [ws EXCEPT ![o] = "open"]
    /\ connections' = connect(connections, o)
    /\ \/ bc' = IF bc.active /\ ~bc.detached
                THEN [bc EXCEPT !.late = @ \cup {o}]
                ELSE bc
       \/ /\ bc.active /\ ~bc.detached
          /\ bc' = [bc EXCEPT !.passed = @ \cup {o}, !.late = @ \cup {o}]
    /\ IF should_start
       THEN /\ tasks' = register_task(tasks)
            /\ pc' = "start"
            /\ FreshLocals
       ELSE UNCHANGED <<tasks, runLocals>>
    /\ UNCHANGED <<simulations, analysisSets, calls, tool>>

\* the client goes away; the endpoint has not yet seen it
ClientLeaves(o) ==
    /\ ws[o] = "open"
    /\ ws' = [ws EXCEPT ![o] = "gone"]
    /\ UNCHANGED <<simulations, tasks, connections, bc, runLocals,
                   analysisSets, calls, tool>>

\* receive_text raises WebSocketDisconnect and the endpoint's finally runs
\* disconnect.  A set deleted under a suspended broadcast is no longer the
\* set of the map: the iterator keeps walking the emptied one.
WsDisconnect(o) ==
    /\ ws[o] \in {"open", "gone"}
    /\ ws' = [ws EXCEPT ![o] = "closed"]
    /\ connections' = disconnect(connections, o)
    /\ bc' = IF ~bc.active
             THEN bc
             ELSE IF SID \in DOMAIN connections
                     /\ SID \notin DOMAIN disconnect(connections, o)
                  THEN [BcNone EXCEPT !.active = TRUE, !.detached = TRUE,
                                      !.failed = bc.failed]
                  ELSE [bc EXCEPT !.passed = @ \ {o}, !.dead = @ \ {o},
                                  !.got = @ \ {o}, !.late = @ \ {o}]
    /\ UNCHANGED <<simulations, tasks, runLocals, analysisSets, calls, tool>>

\* the suspended send returned and the loop takes the next websocket
BroadcastNext ==
    /\ bc.active /\ ~SetChanged
    /\ \E w \in Conns \ bc.passed :
         bc' = [bc EXCEPT !.passed = @ \cup {w},
                          !.dead = IF SendFails(w) THEN @ \cup {w} ELSE @,
                          !.got = IF SendFails(w) THEN @ ELSE @ \cup {w},
                          !.failed = IF SendFails(w) THEN @ \cup {w} ELSE @]
    /\ UNCHANGED <<simulations, tasks, connections, ws, runLocals,
                   analysisSets, calls, tool>>

-----------------------------------------------------------------------------
(* api/websocket.py: run_simulation up to the debate.  pc names the code   *)
(* that runs when the task resumes.                                        *)

\* the steps that only broadcast a status message, and where the task
\* resumes after each: document analysis (lines 152-164 and
\* orchestrator.process_input), community research (167-181 and
\* orchestrator.research_community), the callbacks of generate_personas
\* and of the analysis
StatusNext(label) ==
    CASE label = "start" -> {"doc"}
      [] label = "doc" -> {"doc_cb", "research"}
      [] label = "doc_cb" -> {"doc_call"}
      [] label = "doc_call" -> {"doc_ok", "research"}
      [] label = "doc_ok" -> {"research"}
      [] label = "research" -> {"research_cb"}
      [] label = "research_cb" -> {"research_call"}
      [] label = "research_call" -> {"research_ok", "research_none"}
      [] label = "research_ok" -> {"research_done"}
      [] label = "research_none" -> {"research_done"}
      [] label = "gen_cb" -> {"gen_call"}
      [] label = "an_progress" -> {"an_cb"}
      [] label = "an_cb" -> {"tier1"}
      [] label = "an_have" -> {"an_set"}
      [] OTHER -> {}

\* the task resumes inside the try of lines 168-181
InResearchTry ==
    pc \in {"research_call", "research_ok", "research_none", "research_done"}

\* the task resumes inside the try of lines 268-276
InTier1Try == pc \in {"tier1", "an_have"}

\* the code at these labels runs when an awaited call of an external
\* service answers: the task went into that await after its last broadcast
\* had returned
AwaitsService ==
    pc \in {"doc_call", "research_call", "gen_call", "streaming", "tier1",
            "tier2"}

\* the service the task awaits has answered
Answered == AwaitsService /\ ~bc.active

\* broadcast returns (its loop ended, dead connections are cleaned up) and
\* the task goes on to await an external service
BroadcastReturns ==
    /\ LoopEnds
    /\ AwaitsService
    /\ NoBroadcast
    /\ UNCHANGED <<simulations, tasks, ws, pc, personas, phaseIdx, turnIdx,
                   transcript, fullText, context, analysisResult, reply,
                   emitted, analysisSets, calls, tool>>

RunStatus ==
    /\ IF AwaitsService THEN Answered ELSE Resumes
    /\ \E next \in StatusNext(pc) : pc' = next
    /\ broadcast(Cleaned)
    /\ UNCHANGED <<simulations, tasks, ws, personas, phaseIdx, turnIdx,
                   transcript, fullText, context, analysisResult, reply,
                   emitted, analysisSets, calls, tool>>

\* asyncio.wait_for(research_community, timeout=50) expires while the
\* research call is awaited: the except of line 182 reports it
RunResearchTimeout ==
    /\ Answered
    /\ pc = "research_call"
    /\ pc' = "research_failed"
    /\ broadcast(Cleaned)
    /\ UNCHANGED <<simulations, tasks, ws, personas, phaseIdx, turnIdx,
                   transcript, fullText, context, analysisResult, reply,
                   emitted, analysisSets, calls, tool>>

\* lines 187-188
RunGeneratingPersonas ==
    /\ Resumes
    /\ pc \in {"research_done", "research_failed"}
    /\ simulations' = update_status(simulations, SID, "generating_personas")
    /\ pc' = "gen_cb"
    /\ broadcast(Cleaned)
    /\ UNCHANGED <<tasks, ws, personas, phaseIdx, turnIdx, transcript,
                   fullText, context, analysisResult, reply, emitted,
                   analysisSets, calls, tool>>

\* orchestrator.generate_personas once the SDK call has answered
RunPersonasGenerated ==
    /\ Answered
    /\ pc = "gen_call"
    /\ \E answer \in SdkAnswers : personas' = generate_personas(answer)
    /\ pc' = "intro"
    /\ turnIdx' = 0
    /\ broadcast(Cleaned)
    /\ UNCHANGED <<simulations, tasks, ws, phaseIdx, transcript, fullText,
                   context, analysisResult, reply, emitted, analysisSets,
                   calls, tool>>

\* lines 195-214: the personas are stored, then one persona_intro each
\* (turnIdx counts the intros sent)
RunPersonaIntro ==
    /\ Resumes
    /\ pc = "intro"
    /\ turnIdx < Len(personas)
    /\ simulations' = IF turnIdx = 0
                      THEN update_personas(simulations, SID, personas)
                      ELSE simulations
    /\ turnIdx' = turnIdx + 1
    /\ broadcast(Cleaned)
    /\ UNCHANGED <<tasks, ws, pc, personas, phaseIdx, transcript, fullText,
                   context, analysisResult, reply, emitted, analysisSets,
                   calls, tool>>

\* line 216
RunPersonasReady ==
    /\ Resumes
    /\ pc = "intro"
    /\ turnIdx = Len(personas)
    /\ pc' = "personas_ready"
    /\ turnIdx' = 0
    /\ broadcast(Cleaned)
    /\ UNCHANGED <<simulations, tasks, ws, personas, phaseIdx, transcript,
                   fullText, context, analysisResult, reply, emitted,
                   analysisSets, calls, tool>>

-----------------------------------------------------------------------------
(* debate/engine.py and debate/turns.py, with the callbacks run_simulation *)
(* wires in (lines 222-241).                                               *)

\* the engine is between two turns: it was just built, a phase was just
\* entered, or a turn just ended
BetweenTurns == pc \in {"personas_ready", "phase_entered", "turn_ended"}

\* every speaker of the current phase has had the turn
PhaseOver == turnIdx = Len(Speakers)

\* an engine that announces a phase only when somebody speaks in it
EnterPhaseWithSpeakers ==
    /\ Resumes
    /\ BetweenTurns /\ PhaseOver
    /\ phaseIdx < Len(PhaseOrder)
    /\ phaseIdx' = phaseIdx + 1
    /\ turnIdx' = 0
    /\ pc' = "phase_entered"
    /\ IF PhaseSpeakers(personas, phaseIdx + 1) = <<>>
       THEN /\ simulations' = AfterTurnEnd
            /\ emitted' = emitted
            /\ NoBroadcast
       ELSE /\ simulations' =
                 update_status(AfterTurnEnd, SID, PhaseOrder[phaseIdx + 1])
            /\ emitted' =
                 Append(emitted,
                        Event("phase_change", PhaseOrder[phaseIdx + 1], 0))
            /\ broadcast(Cleaned)
    /\ UNCHANGED <<tasks, ws, personas, transcript, fullText, context,
                   analysisResult, reply, analysisSets, calls, tool>>

\* _run_<phase>_phase entered: set_phase, then on_phase_change, which stores
\* the status and broadcasts phase_change
EnterPhase ==
    /\ Resumes
    /\ BetweenTurns /\ PhaseOver
    /\ phaseIdx < Len(PhaseOrder)
    /\ phaseIdx' = phaseIdx + 1
    /\ turnIdx' = 0
    /\ simulations' = update_status(AfterTurnEnd, SID, PhaseOrder[phaseIdx + 1])
    /\ emitted' = Append(emitted,
                         Event("phase_change", PhaseOrder[phaseIdx + 1], 0))
    /\ pc' = "phase_entered"
    /\ broadcast(Cleaned)
    /\ UNCHANGED <<tasks, ws, personas, transcript, fullText, context,
                   analysisResult, reply, analysisSets, calls, tool>>

\* a turn that starts before the one before it is stored
TurnStartUnstored ==
    /\ Resumes
    /\ BetweenTurns /\ ~PhaseOver
    /\ turnIdx' = turnIdx + 1
    /\ fullText' = <<>>
    /\ emitted' = Append(emitted, Event("speaking_start", Phase, CurTurn))
    /\ pc' = "turn_started"
    /\ broadcast(Cleaned)
    /\ UNCHANGED <<simulations, tasks, ws, personas, phaseIdx, transcript,
                   context, analysisResult, reply, analysisSets, calls, tool>>

\* _run_turn, lines 69-72: a fresh turn id, on_speaking_start
TurnStart ==
    /\ Resumes
    /\ BetweenTurns /\ ~PhaseOver
    /\ turnIdx' = turnIdx + 1
    /\ fullText' = <<>>
    /\ simulations' = AfterTurnEnd
    /\ emitted' = Append(emitted, Event("speaking_start", Phase, CurTurn))
    /\ pc' = "turn_started"
    /\ broadcast(Cleaned)
    /\ UNCHANGED <<tasks, ws, personas, phaseIdx, transcript, context,
                   analysisResult, reply, analysisSets, calls, tool>>

\* _run_turn, lines 75-87: the context is built from the transcript as it
\* is, and the stream of the generative service is opened
StreamOpen ==
    /\ Resumes
    /\ pc = "turn_started"
    /\ context' = _build_meeting_context(transcript, personas[Speaker], Phase)
    /\ pc' = "streaming"
    /\ NoBroadcast
    /\ UNCHANGED <<simulations, tasks, ws, personas, phaseIdx, turnIdx,
                   transcript, fullText, analysisResult, reply, emitted,
                   analysisSets, calls, tool>>

\* a stream that puts each fragment in front of the text it has
StreamFragmentPrepends(frags) ==
    /\ Answered
    /\ pc = "streaming"
    /\ Len(fullText) < frags
    /\ fullText' = Fragment(RunNo, CurTurn, Len(fullText) + 1) \o fullText
    /\ emitted' =
         Append(emitted,
                TextEvent("token", Phase, CurTurn,
                          Fragment(RunNo, CurTurn, Len(fullText) + 1)))
    /\ broadcast(Cleaned)
    /\ UNCHANGED <<simulations, tasks, ws, pc, personas, phaseIdx, turnIdx,
                   transcript, context, analysisResult, reply, analysisSets,
                   calls, tool>>

\* stream_debate_turn, of a stream of frags fragments: the next fragment is
\* added to full_text and handed to on_token
StreamFragmentOf(frags) ==
    /\ Answered
    /\ pc = "streaming"
    /\ Len(fullText) < frags
    /\ fullText' = fullText \o Fragment(RunNo, CurTurn, Len(fullText) + 1)
    /\ emitted' =
         Append(emitted,
                TextEvent("token", Phase, CurTurn,
                          Fragment(RunNo, CurTurn, Len(fullText) + 1)))
    /\ broadcast(Cleaned)
    /\ UNCHANGED <<simulations, tasks, ws, pc, personas, phaseIdx, turnIdx,
                   transcript, context, analysisResult, reply, analysisSets,
                   calls, tool>>

StreamFragment == StreamFragmentOf(FragsPerTurn)

\* the DebateTurn of _run_turn, lines 90-97
DebateTurn(n, speaker, text) ==
    [id |-> TurnId(RunNo, n), phase |-> Phase, persona_id |-> speaker,
     persona_role |-> personas[speaker], content |-> text]

\* Transcript.add_turn
add_turn(turns, turn) == Append(turns, turn)

\* the stream of frags fragments ends: _run_turn, lines 89-103, adds the turn
\* to the transcript and calls on_speaking_end, which broadcasts speaking_end
StreamCompleteOf(frags) ==
    /\ Answered
    /\ pc = "streaming"
    /\ Len(fullText) = frags
    /\ transcript' =
         add_turn(transcript, DebateTurn(CurTurn, Speaker, fullText))
    /\ emitted' =
         Append(emitted, TextEvent("speaking_end", Phase, CurTurn, fullText))
    /\ pc' = "turn_ended"
    /\ broadcast(Cleaned)
    /\ UNCHANGED <<simulations, tasks, ws, personas, phaseIdx, turnIdx,
                   fullText, context, analysisResult, reply, analysisSets,
                   calls, tool>>

StreamComplete == StreamCompleteOf(FragsPerTurn)

-----------------------------------------------------------------------------
(* api/websocket.py: run_simulation's except clause, lines 306-309.        *)

\* str(e) of the exceptions that reach the except clause: the generative
\* service's error, and the set iterator's RuntimeError
GenerationError == "generation failed"
SetChangedError == "Set changed size during iteration"

\* an except clause that reports the error without storing it
HandlerSendsOnly(sims, c, msg) ==
    /\ simulations' = sims
    /\ emitted' = Append(emitted, Event("error", "", 0))
    /\ pc' = "failed"
    /\ broadcast(c)

\* set_error, then send_error
Handler(sims, c, msg) ==
    /\ simulations' = set_error(sims, SID, msg)
    /\ emitted' = Append(emitted, Event("error", "", 0))
    /\ pc' = "failed"
    /\ broadcast(c)

\* a failing stream whose fragments are kept as a turn
StreamFailKeepsPartial ==
    /\ Answered
    /\ pc = "streaming"
    /\ transcript' = add_turn(transcript, DebateTurn(CurTurn, Speaker, fullText))
    /\ Handler(add_transcript_turn(simulations, SID,
                                   StoredTurn(transcript'[Len(transcript')])),
               Cleaned, GenerationError)
    /\ UNCHANGED <<tasks, ws, personas, phaseIdx, turnIdx, fullText, context,
                   analysisResult, reply, analysisSets, calls, tool>>

\* the generative service fails, before or between fragments: the exception
\* leaves stream_debate_turn, _run_turn and run_debate
StreamFail ==
    /\ Answered
    /\ pc = "streaming"
    /\ Handler(simulations, Cleaned, GenerationError)
    /\ UNCHANGED <<tasks, ws, personas, phaseIdx, turnIdx, transcript,
                   fullText, context, analysisResult, reply, analysisSets,
                   calls, tool>>

\* the loop of a broadcast finds the set changed: RuntimeError leaves
\* broadcast, without its clean-up, and reaches the except clause
BroadcastRaises ==
    /\ SetChanged
    /\ ~InResearchTry /\ ~InTier1Try /\ pc # "failed"
    /\ Handler(simulations, connections, SetChangedError)
    /\ UNCHANGED <<tasks, ws, personas, phaseIdx, turnIdx, transcript,
                   fullText, context, analysisResult, reply, analysisSets,
                   calls, tool>>

\* ... inside the community research: caught by line 182, which reports a
\* time-out and goes on
BroadcastRaisesInResearch ==
    /\ SetChanged
    /\ InResearchTry
    /\ pc' = "research_failed"
    /\ broadcast(connections)
    /\ UNCHANGED <<simulations, tasks, ws, personas, phaseIdx, turnIdx,
                   transcript, fullText, context, analysisResult, reply,
                   emitted, analysisSets, calls, tool>>

\* ... inside orchestrator.analyze_debate: caught by line 277, no result was
\* assigned, and the second attempt follows (line 283)
BroadcastRaisesInTier1 ==
    /\ SetChanged
    /\ InTier1Try
    /\ analysisResult' = NoResult
    /\ pc' = "tier2"
    /\ broadcast(connections)
    /\ UNCHANGED <<simulations, tasks, ws, personas, phaseIdx, turnIdx,
                   transcript, fullText, context, reply, emitted,
                   analysisSets, calls, tool>>

\* ... inside send_error: the exception leaves the task, which is done
BroadcastRaisesInHandler ==
    /\ SetChanged
    /\ pc = "failed"
    /\ TaskEnds
    /\ bc' = BcNone
    /\ UNCHANGED <<simulations, connections, ws, analysisSets, calls, tool>>

-----------------------------------------------------------------------------
(* api/websocket.py: run_simulation after the debate, lines 255-304.       *)

\* the responses a tier's call gets in the pipeline of the model: an
\* exception, or an object with nothing but a score (SpecAnalysis goes
\* through the other shapes)
ScoreOnly == 62

ScoreObject(value) == [EmptyObject EXCEPT !.approval_score = value]

TierReplies == {Raised, Object(ScoreObject(Number(ScoreOnly)))}

\* the call of a tier comes back with one of the given responses
TierAnswers(tier, replies) ==
    /\ Answered
    /\ pc = (IF tier = 1 THEN "tier1" ELSE "tier2")
    /\ reply = NoReply
    /\ \E r \in replies : reply' = [r EXCEPT !.tier = tier]
    /\ UNCHANGED <<simulations, tasks, connections, ws, bc, pc, personas,
                   phaseIdx, turnIdx, transcript, fullText, context,
                   analysisResult, emitted, analysisSets, calls, tool>>

\* the call of the first tier comes back: query(...) of analysis_agent.py
\* ends or raises
Tier1Answers == TierAnswers(1, TierReplies)

\* the call of the second tier comes back: client.messages.create of
\* _fallback_analysis returns or raises
Tier2Answers == TierAnswers(2, TierReplies)

\* run_debate has returned: lines 256-257
RunAnalysis ==
    /\ Resumes
    /\ BetweenTurns /\ PhaseOver
    /\ phaseIdx = Len(PhaseOrder)
    /\ simulations' = update_status(AfterTurnEnd, SID, "analysis")
    /\ pc' = "an_progress"
    /\ broadcast(Cleaned)
    /\ UNCHANGED <<tasks, ws, personas, phaseIdx, turnIdx, transcript,
                   fullText, context, analysisResult, reply, emitted,
                   analysisSets, calls, tool>>

\* orchestrator.analyze_debate: the agent's answer parsed into a result,
\* reported by the callback of line 166 before it is returned
RunTier1Result ==
    /\ Answered
    /\ pc = "tier1"
    /\ reply.tier = 1
    /\ analyze_debate(reply) # NoResult
    /\ analysisResult' = analyze_debate(reply)
    /\ pc' = "an_have"
    /\ reply' = NoReply
    /\ broadcast(Cleaned)
    /\ UNCHANGED <<simulations, tasks, ws, personas, phaseIdx, turnIdx,
                   transcript, fullText, context, emitted, analysisSets,
                   calls, tool>>

\* a chain that goes on to the second attempt only after an exception
RunTier1FailsOnRaise ==
    /\ Answered
    /\ pc = "tier1"
    /\ reply.tier = 1
    /\ reply.kind = "raised"
    /\ pc' = "tier2"
    /\ reply' = NoReply
    /\ broadcast(Cleaned)
    /\ UNCHANGED <<simulations, tasks, ws, personas, phaseIdx, turnIdx,
                   transcript, fullText, context, analysisResult, emitted,
                   analysisSets, calls, tool>>

\* analyze_debate returns None: lines 281-283 announce the second attempt
RunTier1Fails ==
    /\ Answered
    /\ pc = "tier1"
    /\ reply.tier = 1
    /\ analyze_debate(reply) = NoResult
    /\ pc' = "tier2"
    /\ reply' = NoReply
    /\ broadcast(Cleaned)
    /\ UNCHANGED <<simulations, tasks, ws, personas, phaseIdx, turnIdx,
                   transcript, fullText, context, analysisResult, emitted,
                   analysisSets, calls, tool>>

\* _fallback_analysis returns a result: lines 285-294
RunTier2Result ==
    /\ Answered
    /\ pc = "tier2"
    /\ reply.tier = 2
    /\ _fallback_analysis(reply) # NoResult
    /\ analysisResult' = _fallback_analysis(reply)
    /\ pc' = "an_set"
    /\ reply' = NoReply
    /\ broadcast(Cleaned)
    /\ UNCHANGED <<simulations, tasks, ws, personas, phaseIdx, turnIdx,
                   transcript, fullText, context, emitted, analysisSets,
                   calls, tool>>

\* _fallback_analysis returns None: lines 298-300
RunTier2Fails ==
    /\ Answered
    /\ pc = "tier2"
    /\ reply.tier = 2
    /\ _fallback_analysis(reply) = NoResult
    /\ pc' = "complete"
    /\ reply' = NoReply
    /\ broadcast(Cleaned)
    /\ UNCHANGED <<simulations, tasks, ws, personas, phaseIdx, turnIdx,
                   transcript, fullText, context, analysisResult, emitted,
                   analysisSets, calls, tool>>

\* lines 295-297: set_analysis, send_analysis
RunSetAnalysis ==
    /\ Resumes
    /\ pc = "an_set"
    /\ simulations' = set_analysis(simulations, SID, analysisResult)
    /\ analysisSets' = analysisSets + 1
    /\ emitted' = Append(emitted, Event("analysis", "", 0))
    /\ pc' = "complete"
    /\ broadcast(Cleaned)
    /\ UNCHANGED <<tasks, ws, personas, phaseIdx, turnIdx, transcript,
                   fullText, context, analysisResult, reply, calls, tool>>

\* lines 303-304
RunComplete ==
    /\ Resumes
    /\ pc = "complete"
    /\ simulations' = update_status(simulations, SID, "complete")
    /\ emitted' = Append(emitted, Event("complete", "", 0))
    /\ pc' = "returning"
    /\ broadcast(Cleaned)
    /\ UNCHANGED <<tasks, ws, personas, phaseIdx, turnIdx, transcript,
                   fullText, context, analysisResult, reply, analysisSets,
                   calls, tool>>

\* run_simulation returns, after send_complete or after send_error: the
\* task is done
RunReturn ==
    /\ Resumes
    /\ pc \in {"returning", "failed"}
    /\ TaskEnds
    /\ NoBroadcast
    /\ UNCHANGED <<simulations, ws, analysisSets, calls, tool>>

-----------------------------------------------------------------------------
Engine ==
    \/ EnterPhase
    \/ TurnStart
    \/ StreamOpen
    \/ StreamFragment
    \/ StreamComplete
    \/ StreamFail

AfterDebate ==
    \/ RunAnalysis
    \/ Tier1Answers
    \/ RunTier1Result
    \/ RunTier1Fails
    \/ Tier2Answers
    \/ RunTier2Result
    \/ RunTier2Fails
    \/ RunSetAnalysis
    \/ RunComplete
    \/ RunReturn

Next ==
    \/ \E o \in Observers : WsConnect(o)
    \/ \E o \in Observers : WsDisconnect(o)
    \/ BroadcastNext
    \/ BroadcastReturns
    \/ BroadcastRaises
    \/ BroadcastRaisesInResearch
    \/ BroadcastRaisesInTier1
    \/ BroadcastRaisesInHandler
    \/ RunStatus
    \/ RunResearchTimeout
    \/ RunGeneratingPersonas
    \/ RunPersonasGenerated
    \/ RunPersonaIntro
    \/ RunPersonasReady
    \/ Engine
    \/ AfterDebate

Spec == Init /\ [][Next]_vars

-----------------------------------------------------------------------------
(* The pipeline under the event loop's scheduling, with external calls     *)
(* that come back: a task that is ready is run, a send to a websocket      *)
(* returns or raises, and a call of a service answers, fails or is timed   *)
(* out.  Nothing is assumed of the observers.                              *)

RunStep ==
    \/ BroadcastNext
    \/ BroadcastReturns
    \/ BroadcastRaises
    \/ BroadcastRaisesInResearch
    \/ BroadcastRaisesInTier1
    \/ BroadcastRaisesInHandler
    \/ RunStatus
    \/ RunResearchTimeout
    \/ RunGeneratingPersonas
    \/ RunPersonasGenerated
    \/ RunPersonaIntro
    \/ RunPersonasReady
    \/ Engine
    \/ AfterDebate

SpecFair == Init /\ [][Next]_vars /\ WF_vars(RunStep)

-----------------------------------------------------------------------------
(* The engine driven on its own, as test_debate.py does with the default   *)
(* cast: run_simulation from the construction of the engine on (line 243), *)
(* with any persona list of bounded length and nobody connected.           *)

PersonaLists == UNION {[1..n -> PersonaRole] : n \in 0..MaxPersonas}

InitEngine ==
    /\ personas \in PersonaLists
    /\ simulations =
         (SID :> [NewSimulationState EXCEPT !.status = "generating_personas",
                                            !.personas = personas])
    /\ tasks = <<"running">>
    /\ connections = NoEntries
    /\ ws = [o \in Observers |-> "new"]
    /\ bc = BcNone
    /\ pc = "personas_ready"
    /\ phaseIdx = 0
    /\ turnIdx = 0
    /\ transcript = <<>>
    /\ fullText = <<>>
    /\ context = NoContext
    /\ analysisResult = NoResult
    /\ reply = NoReply
    /\ emitted = <<>>
    /\ analysisSets = 0
    /\ calls = NoCalls
    /\ tool = NotComputed

NextEngine ==
    \/ Engine
    \/ RunStatus
    \/ AfterDebate

SpecEngine == InitEngine /\ [][NextEngine]_vars

-----------------------------------------------------------------------------
(* The analysis of a debate on responses of every shape: the engine driven *)
(* on its own with one council member, and tiers whose calls come back     *)
(* with any of the responses below.                                        *)

Scores ==
    {Absent(0), Word, Null, Number(-1), Number(0), Number(ScoreOnly),
     Number(100), Number(101)}

Labels == {Absent(""), String("Likely Approved")}

ArgumentLists == {Absent(<<>>), List(<<"argument">>)}

Objects ==
    {[EmptyObject EXCEPT !.approval_score = s, !.approval_label = l,
                         !.key_arguments = a] :
       s \in Scores, l \in Labels, a \in ArgumentLists}

AnyReplies == {Raised, Prose} \cup {Object(data) : data \in Objects}

Tier1AnswersAny == TierAnswers(1, AnyReplies)

Tier2AnswersAny == TierAnswers(2, AnyReplies)

InitAnalysis ==
    /\ InitEngine
    /\ personas = <<"council_member">>

NextAnalysis ==
    \/ Engine
    \/ RunStatus
    \/ RunAnalysis
    \/ Tier1AnswersAny
    \/ RunTier1Result
    \/ RunTier1Fails
    \/ Tier2AnswersAny
    \/ RunTier2Result
    \/ RunTier2Fails
    \/ RunSetAnalysis
    \/ RunComplete
    \/ RunReturn

SpecAnalysis == InitAnalysis /\ [][NextAnalysis]_vars

-----------------------------------------------------------------------------
(* The same under the event loop's scheduling: a task that is ready to run *)
(* is run.  run_simulation awaits the calls of the tiers without a        *)
(* deadline of its own, so nothing in it makes them come back.             *)

TaskStep ==
    \/ RunStatus
    \/ EnterPhase
    \/ TurnStart
    \/ StreamOpen
    \/ RunAnalysis
    \/ RunTier1Result
    \/ RunTier1Fails
    \/ RunTier2Result
    \/ RunTier2Fails
    \/ RunSetAnalysis
    \/ RunComplete
    \/ RunReturn

SpecAnalysisFair ==
    InitAnalysis /\ [][NextAnalysis]_vars /\ WF_vars(TaskStep)

-----------------------------------------------------------------------------
(* Observers of a run in progress: the run of the first observer has its   *)
(* personas (three from the service and the default council member); its   *)
(* client and the clients that join later may go away before their         *)
(* endpoints notice.                                                       *)

StreamCast == <<"moderator", "petitioner", "resident", "council_member">>

InitStream ==
    /\ personas = StreamCast
    /\ simulations =
         (SID :> [NewSimulationState EXCEPT !.status = "generating_personas",
                                            !.personas = personas])
    /\ tasks = <<"running">>
    /\ connections = (SID :> {1})
    /\ ws = [o \in Observers |-> IF o = 1 THEN "open" ELSE "new"]
    /\ bc = BcNone
    /\ pc = "personas_ready"
    /\ phaseIdx = 0
    /\ turnIdx = 0
    /\ transcript = <<>>
    /\ fullText = <<>>
    /\ context = NoContext
    /\ analysisResult = NoResult
    /\ reply = NoReply
    /\ emitted = <<>>
    /\ analysisSets = 0
    /\ calls = NoCalls
    /\ tool = NotComputed

\* an observer joins the run in progress
WsJoins(o) == ~should_start /\ WsConnect(o)

NextStream ==
    \/ \E o \in Observers : WsJoins(o)
    \/ \E o \in Observers : ClientLeaves(o)
    \/ \E o \in Observers : WsDisconnect(o)
    \/ BroadcastNext
    \/ BroadcastReturns
    \/ BroadcastRaises
    \/ BroadcastRaisesInTier1
    \/ BroadcastRaisesInHandler
    \/ RunStatus
    \/ Engine
    \/ AfterDebate

SpecStream == InitStream /\ [][NextStream]_vars

-----------------------------------------------------------------------------
(* The session store on its own: a second session is created, and callers  *)
(* call the mutators concurrently, each with the id of a session or with   *)
(* an id no session was created with.  A mutator has no await that         *)
(* suspends (its lock is free whenever it is taken), so a call is one      *)
(* step and concurrent calls run in some order.                            *)

OtherSID == "other"
UnknownID == "unknown"

StoreIds == {SID, OtherSID, UnknownID}

\* the arguments of the calls
CallStatuses == {"opening", "complete"}
CallPersonas == <<"moderator">>
CallTurn(c) == [turn_id |-> <<0, c>>, persona_id |-> c, full_text |-> <<c>>]
CallAnalysis == AnalysisResult(ScoreObject(Number(ScoreOnly)))

\* everything but the store and its callers
runVars ==
    <<tasks, connections, ws, bc, runLocals, analysisSets, tool>>

\* caller c calls the mutator op with id
Called(c, op, id) ==
    /\ calls[c] = NotCalled
    /\ calls' = [calls EXCEPT ![c] = [op |-> op, id |-> id,
                                      known |-> id \in DOMAIN simulations]]
    /\ UNCHANGED runVars

CreateSimulation ==
    /\ OtherSID \notin DOMAIN simulations
    /\ simulations' = create_simulation(simulations, OtherSID)
    /\ UNCHANGED <<runVars, calls>>

CallUpdateStatus(c) ==
    \E id \in StoreIds, status \in CallStatuses :
      /\ Called(c, "update_status", id)
      /\ simulations' = update_status(simulations, id, status)

CallUpdatePersonas(c) ==
    \E id \in StoreIds :
      /\ Called(c, "update_personas", id)
      /\ simulations' = update_personas(simulations, id, CallPersonas)

\* a caller whose append writes back a list without the other callers' turns
CallAddTranscriptTurnAlone(c) ==
    \E id \in StoreIds :
      /\ Called(c, "add_transcript_turn", id)
      /\ simulations' =
           add_transcript_turn(
             IF id \in DOMAIN simulations
             THEN [simulations EXCEPT ![id].transcript = <<>>]
             ELSE simulations,
             id, CallTurn(c))

CallAddTranscriptTurn(c) ==
    \E id \in StoreIds :
      /\ Called(c, "add_transcript_turn", id)
      /\ simulations' = add_transcript_turn(simulations, id, CallTurn(c))

CallSetAnalysis(c) ==
    \E id \in StoreIds :
      /\ Called(c, "set_analysis", id)
      /\ simulations' = set_analysis(simulations, id, CallAnalysis)

CallSetError(c) ==
    \E id \in StoreIds :
      /\ Called(c, "set_error", id)
      /\ simulations' = set_error(simulations, id, GenerationError)

NextStore ==
    \/ CreateSimulation
    \/ \E c \in Callers : CallUpdateStatus(c)
    \/ \E c \in Callers : CallUpdatePersonas(c)
    \/ \E c \in Callers : CallAddTranscriptTurn(c)
    \/ \E c \in Callers : CallSetAnalysis(c)
    \/ \E c \in Callers : CallSetError(c)

SpecStore == Init /\ [][NextStore]_vars

-----------------------------------------------------------------------------
(* The approval score tool on its own: it is called once, with each factor *)
(* absent or one of the values.                                            *)

ToolArgs ==
    [FactorNames -> {Absent(0)} \cup {Number(v) : v \in FactorValues}]

InitScoring ==
    /\ simulations = (SID :> NewSimulationState)
    /\ tasks = <<>>
    /\ connections = NoEntries
    /\ ws = [o \in Observers |-> "new"]
    /\ bc = BcNone
    /\ pc = "idle"
    /\ personas = <<>>
    /\ phaseIdx = 0
    /\ turnIdx = 0
    /\ transcript = <<>>
    /\ fullText = <<>>
    /\ context = NoContext
    /\ analysisResult = NoResult
    /\ reply = NoReply
    /\ emitted = <<>>
    /\ analysisSets = 0
    /\ calls = NoCalls
    /\ \E args \in ToolArgs : tool = [NotComputed EXCEPT !.args = args]

\* the tool runs and returns its text with the score
compute_approval_score_tool ==
    /\ ~tool.returned
    /\ tool' = [tool EXCEPT !.returned = TRUE,
                            !.score = Format1f(score(tool.args))]
    /\ UNCHANGED <<simulations, tasks, connections, ws, bc, runLocals,
                   analysisSets, calls>>

NextScoring == compute_approval_score_tool

SpecScoring == InitScoring /\ [][NextScoring]_vars

-----------------------------------------------------------------------------
(* Two sessions side by side: the store holds SID and OtherSID, each        *)
(* websocket is opened on the path of one of them, broadcasts are made for  *)
(* either, and a caller calls a mutator of the store.                       *)

\* the websockets: one more than the observers of a run, so that a session
\* has two
Watchers == 1..(NumObservers + 1)

\* the simulation_id of the path the websocket was opened on
SessionOf(o) == IF o % 2 = 1 THEN SID ELSE OtherSID

SessionIds == {SID, OtherSID}

\* a session somewhere in its run
BusySimulationState ==
    [NewSimulationState EXCEPT !.status = "public_comment",
                               !.personas = StreamCast,
                               !.transcript = <<CallTurn(0)>>]

\* the broadcast under way, as BcNone, and the session it is for
BcIdle ==
    [active |-> FALSE, id |-> "", used |-> 0, passed |-> {}, dead |-> {},
     detached |-> FALSE, got |-> {}]

InitSessions ==
    /\ simulations \in [SessionIds ->
                          {NewSimulationState, BusySimulationState}]
    /\ tasks = <<>>
    /\ connections = NoEntries
    /\ ws = [o \in Watchers |-> "new"]
    /\ bc = BcIdle
    /\ pc = "idle"
    /\ personas = <<>>
    /\ phaseIdx = 0
    /\ turnIdx = 0
    /\ transcript = <<>>
    /\ fullText = <<>>
    /\ context = NoContext
    /\ analysisResult = NoResult
    /\ reply = NoReply
    /\ emitted = <<>>
    /\ analysisSets = 0
    /\ calls = NoCalls
    /\ tool = NotComputed

\* connect(simulation_id, websocket)
connect_id(c, id, o) ==
    IF id \in DOMAIN c THEN [c EXCEPT ![id] = @ \cup {o}] ELSE c @@ (id :> {o})

\* disconnect(simulation_id, websocket): an emptied set is deleted
disconnect_id(c, id, o) ==
    IF id \notin DOMAIN c
    THEN c
    ELSE IF c[id] \ {o} = {}
         THEN [i \in DOMAIN c \ {id} |-> c[i]]
         ELSE [c EXCEPT ![id] = @ \ {o}]

\* a broadcast that walks the websockets of every session
AudienceAll(c, id) == UNION {c[i] : i \in DOMAIN c}

\* `self._connections.get(simulation_id, set())`: the set the loop walks
Audience(c, id) == IF id \in DOMAIN c THEN c[id] ELSE {}

\* the set iterator of the broadcast under way raises RuntimeError
SessionSetChanged ==
    /\ bc.active
    /\ bc.detached \/ Cardinality(Audience(connections, bc.id)) # bc.used

storeVars == <<simulations, calls>>

\* everything but the store, the connection map and the broadcast
idleVars == <<tasks, runLocals, analysisSets, tool>>

\* the endpoint accepts a websocket and connects it; in the set a suspended
\* broadcast is walking it lands before or behind the iterator
SessionConnect(o) ==
    /\ ws[o] = "new"
    /\ ws' = [ws EXCEPT ![o] = "open"]
    /\ connections' = connect_id(connections, SessionOf(o), o)
    /\ \/ bc' = bc
       \/ /\ bc.active /\ ~bc.detached /\ bc.id = SessionOf(o)
          /\ bc' = [bc EXCEPT !.passed = @ \cup {o}]
    /\ UNCHANGED <<storeVars, idleVars>>

SessionClientLeaves(o) ==
    /\ ws[o] = "open"
    /\ ws' = [ws EXCEPT ![o] = "gone"]
    /\ UNCHANGED <<storeVars, idleVars, connections, bc>>

\* the endpoint's finally runs disconnect; a set deleted under the
\* suspended broadcast is no longer the set of the map
SessionDisconnect(o) ==
    /\ ws[o] \in {"open", "gone"}
    /\ ws' = [ws EXCEPT ![o] = "closed"]
    /\ connections' = disconnect_id(connections, SessionOf(o), o)
    /\ bc' = IF ~bc.active \/ bc.id # SessionOf(o)
             THEN bc
             ELSE IF bc.id \notin DOMAIN connections'
                  THEN [bc EXCEPT !.detached = TRUE]
                  ELSE [bc EXCEPT !.passed = @ \ {o}, !.dead = @ \ {o}]
    /\ UNCHANGED <<storeVars, idleVars>>

\* broadcast(id, ...): nothing to do without an entry, else the message is
\* sent to the first websocket of the iteration
SessionBroadcast(id) ==
    /\ ~bc.active
    /\ id \in DOMAIN connections
    /\ \E w \in Audience(connections, id) :
         bc' = [active |-> TRUE, id |-> id,
                used |-> Cardinality(Audience(connections, id)),
                passed |-> {w},
                dead |-> IF SendFails(w) THEN {w} ELSE {},
                detached |-> FALSE,
                got |-> IF SendFails(w) THEN {} ELSE {w}]
    /\ UNCHANGED <<storeVars, idleVars, connections, ws>>

\* the suspended send returned and the loop takes the next websocket
SessionBroadcastNext ==
    /\ bc.active /\ ~SessionSetChanged
    /\ \E w \in Audience(connections, bc.id) \ bc.passed :
         bc' = [bc EXCEPT !.passed = @ \cup {w},
                          !.dead = IF SendFails(w) THEN @ \cup {w} ELSE @,
                          !.got = IF SendFails(w) THEN @ ELSE @ \cup {w}]
    /\ UNCHANGED <<storeVars, idleVars, connections, ws>>

\* the loop ends and the dead connections are subtracted
SessionBroadcastReturns ==
    /\ bc.active /\ ~SessionSetChanged
    /\ Audience(connections, bc.id) \subseteq bc.passed
    /\ connections' =
         IF bc.dead # {} /\ bc.id \in DOMAIN connections
         THEN [connections EXCEPT ![bc.id] = @ \ bc.dead]
         ELSE connections
    /\ bc' = BcIdle
    /\ UNCHANGED <<storeVars, idleVars, ws>>

\* the iterator raises and the broadcast is left without its clean-up
SessionBroadcastRaises ==
    /\ SessionSetChanged
    /\ bc' = BcIdle
    /\ UNCHANGED <<storeVars, idleVars, connections, ws>>

\* the first caller calls a mutator of the store
SessionStoreCall ==
    /\ \/ CallUpdateStatus(1)
       \/ CallUpdatePersonas(1)
       \/ CallAddTranscriptTurn(1)
       \/ CallSetAnalysis(1)
       \/ CallSetError(1)

NextSessions ==
    \/ \E o \in Watchers : SessionConnect(o)
    \/ \E o \in Watchers : SessionClientLeaves(o)
    \/ \E o \in Watchers : SessionDisconnect(o)
    \/ \E id \in SessionIds : SessionBroadcast(id)
    \/ SessionBroadcastNext
    \/ SessionBroadcastReturns
    \/ SessionBroadcastRaises
    \/ SessionStoreCall

SpecSessions == InitSessions /\ [][NextSessions]_vars

-----------------------------------------------------------------------------
(* The context of the turn that follows a long one: the engine after a     *)
(* first turn whose stream delivered a text of any length up to MaxOver    *)
(* characters past the truncation limit.                                   *)

MaxOver == 3

\* a text of n characters, no two alike
LongText(n) == [i \in 1..n |-> i]

\* the events of a first turn of n fragments
FirstTurnEvents(n) ==
    <<Event("phase_change", "opening", 0),
      Event("speaking_start", "opening", 1)>>
        \o [i \in 1..n |-> TextEvent("token", "opening", 1, <<i>>)]
        \o <<TextEvent("speaking_end", "opening", 1, LongText(n))>>

InitTruncate ==
    /\ personas = <<"moderator", "petitioner">>
    /\ simulations =
         (SID :> [NewSimulationState EXCEPT !.status = "opening",
                                            !.personas = personas])
    /\ tasks = <<"running">>
    /\ connections = NoEntries
    /\ ws = [o \in Observers |-> "new"]
    /\ bc = BcNone
    /\ pc = "turn_ended"
    /\ phaseIdx = 1
    /\ turnIdx = 1
    /\ \E n \in 0..(TruncateLimit + MaxOver) :
         /\ fullText = LongText(n)
         /\ emitted = FirstTurnEvents(n)
    /\ transcript =
         <<[id |-> TurnId(1, 1), phase |-> "opening", persona_id |-> 1,
            persona_role |-> "moderator", content |-> fullText]>>
    /\ context = NoContext
    /\ analysisResult = NoResult
    /\ reply = NoReply
    /\ analysisSets = 0
    /\ calls = NoCalls
    /\ tool = NotComputed

NextTruncate ==
    \/ TurnStart
    \/ StreamOpen

SpecTruncate == InitTruncate /\ [][NextTruncate]_vars

-----------------------------------------------------------------------------
(* Turns of several fragments: the engine driven on its own with a cast of *)
(* four and a generative service whose streams have LongStream fragments.  *)

LongStream == 3

StreamFragmentLong == StreamFragmentOf(LongStream)

StreamCompleteLong == StreamCompleteOf(LongStream)

InitTurns ==
    /\ personas = StreamCast
    /\ simulations =
         (SID :> [NewSimulationState EXCEPT !.status = "generating_personas",
                                            !.personas = personas])
    /\ tasks = <<"running">>
    /\ connections = NoEntries
    /\ ws = [o \in Observers |-> "new"]
    /\ bc = BcNone
    /\ pc = "personas_ready"
    /\ phaseIdx = 0
    /\ turnIdx = 0
    /\ transcript = <<>>
    /\ fullText = <<>>
    /\ context = NoContext
    /\ analysisResult = NoResult
    /\ reply = NoReply
    /\ emitted = <<>>
    /\ analysisSets = 0
    /\ calls = NoCalls
    /\ tool = NotComputed

NextTurns ==
    \/ EnterPhase
    \/ TurnStart
    \/ StreamOpen
    \/ StreamFragmentLong
    \/ StreamCompleteLong
    \/ StreamFail
    \/ RunReturn

SpecTurns == InitTurns /\ [][NextTurns]_vars

-----------------------------------------------------------------------------
(* Properties.                                                             *)

IsPrefix(s, t) == Len(s) <= Len(t) /\ \A i \in DOMAIN s : s[i] = t[i]

\* the events of the given types the current run has broadcast, in order
EventsOf(types) == SelectSeq(emitted, LAMBDA e : e.type \in types)

TypesOf(events) == [i \in DOMAIN events |-> events[i].type]

\* the phases the current run has announced, in order
PhasesEntered ==
    [i \in DOMAIN EventsOf({"phase_change"}) |->
       EventsOf({"phase_change"})[i].phase]

\* the phase tags and the speakers' roles of a list of turns
PhasesOf(turns) == [i \in DOMAIN turns |-> turns[i].phase]
RolesOf(turns) == [i \in DOMAIN turns |-> turns[i].persona_role]

\* run_debate has returned and run_simulation has not failed since
DebateReturned ==
    pc \in {"an_progress", "an_cb", "tier1", "tier2", "an_have", "an_set",
            "complete", "returning"}

Status == simulations[SID].status

StoreTranscript == simulations[SID].transcript

\* C1: at most one run task of the session is active at any time, whatever
\* the order in which connections reach the endpoint.
C1_OneActiveRun == Cardinality(ActiveTasks) <= 1

\* a second connection has reached the endpoint while the first run was
\* still active, and no second task was created
C1_Witness ==
    /\ ws[1] = "open" /\ ws[2] = "open"
    /\ tasks = <<"running">>

\* C2: the phases a run has announced are always the first phaseIdx phases
\* of the fixed order, each once, and a run_debate that has returned has
\* announced all five, also the phases in which nobody spoke.
C2_PhasesInOrder ==
    /\ PhasesEntered = SubSeq(PhaseOrder, 1, phaseIdx)
    /\ DebateReturned => PhasesEntered = PhaseOrder

\* run_debate has returned after a phase without a single turn
C2_Witness ==
    /\ DebateReturned
    /\ PhasesEntered = PhaseOrder
    /\ \E k \in DOMAIN PhaseOrder : PhaseSpeakers(personas, k) = <<>>
    /\ transcript # <<>>

\* the status sequence of the specification, and its terminal statuses
StatusOrder ==
    <<"setup", "generating_personas", "opening", "public_comment", "rebuttal",
      "council_qa", "deliberation", "analysis", "complete">>

Rank(status) == CHOOSE i \in DOMAIN StatusOrder : StatusOrder[i] = status

Terminal == {"complete", "error"}

MovesForward(old, new) ==
    \/ new = old
    \/ new = "error" /\ old \notin Terminal
    \/ old # "error" /\ new # "error" /\ Rank(old) < Rank(new)

\* C3: every change of the session's status moves forward along the status
\* sequence, or to error from a status that is not terminal.
C3_StatusMovesForward == [][MovesForward(Status, Status')]_vars

\* C4: once the status is error or complete, no step changes it.
C4_TerminalStatusStays ==
    [][(Status \in Terminal) => (Status' = Status)]_vars

\* C5: set_analysis is called at most once for the session, so a stored
\* result is never overwritten and at most one analysis event is broadcast.
C5_AnalysisSetOnce == analysisSets <= 1

\* C6: in every step the session store's turn list is a prefix of the new
\* one, and so is the engine's transcript for as long as the run task (and
\* with it the engine) stays the same.
C6_TurnsAppendOnly ==
    [][/\ IsPrefix(StoreTranscript, StoreTranscript')
       /\ (tasks' = tasks) => IsPrefix(transcript, transcript')]_vars

\* both lists have grown past one turn, and the store holds turns of two
\* runs
C6_Witness ==
    /\ Len(transcript) >= 2
    /\ \E i, j \in DOMAIN StoreTranscript :
         /\ i < j
         /\ StoreTranscript[i].turn_id[1] = 1
         /\ StoreTranscript[j].turn_id[1] = 2

\* the characters the generative service streams for the n-th turn of a run
TurnChars(run, n) == {Fragment(run, n, k)[1] : k \in 1..FragsPerTurn}

\* C7: while the n-th turn of a run is generated, the context built for it
\* has one line for each of the turns 1..n-1, in speaking order, each the
\* rendering of that turn, and holds no character of turn n or a later one;
\* the context of the first turn has no line.
C7_ContextIsPriorTurns ==
    pc = "streaming" =>
      /\ Len(context.prior) = CurTurn - 1
      /\ \A i \in DOMAIN context.prior :
           /\ transcript[i].id = TurnId(RunNo, i)
           /\ context.prior[i].name = transcript[i].persona_id
           /\ context.prior[i].role = transcript[i].persona_role
           /\ context.prior[i].text =
                _truncate(transcript[i].content, TruncateLimit)
           /\ context.prior[i].text # <<>>
           /\ \A j \in DOMAIN context.prior[i].text :
                context.prior[i].text[j] \in TurnChars(RunNo, i)

\* the third turn of a run is being generated from a context of two lines
C7_Witness ==
    /\ pc = "streaming"
    /\ CurTurn = 3
    /\ Len(context.prior) = 2

\* the cast of C8
Cast8 ==
    <<"moderator", "petitioner", "resident", "resident", "resident",
      "council_member">>

IsCast8(ps) ==
    /\ Len(ps) = 6
    /\ \A role \in PersonaRole :
         Cardinality({i \in DOMAIN ps : ps[i] = role}) =
         Cardinality({i \in DOMAIN Cast8 : Cast8[i] = role})

\* C8: a run of one moderator, one petitioner, three residents and one
\* council member fails only when a generation fails, and when it has sent
\* its last event it has produced twelve turns tagged opening x2,
\* public_comment x3, rebuttal x1, council_qa x4, deliberation x2, then at
\* most one analysis event and then exactly one complete event.
C8_FullRun ==
    IsCast8(personas) =>
      /\ pc = "failed" => simulations[SID].error = GenerationError
      /\ pc = "returning" =>
           /\ PhasesOf(transcript) =
                <<"opening", "opening",
                  "public_comment", "public_comment", "public_comment",
                  "rebuttal",
                  "council_qa", "council_qa", "council_qa", "council_qa",
                  "deliberation", "deliberation">>
           /\ TypesOf(EventsOf({"speaking_end", "analysis", "complete",
                                "error"}))
                \in {[i \in 1..12 |-> "speaking_end"] \o <<"complete">>,
                     [i \in 1..12 |-> "speaking_end"]
                        \o <<"analysis", "complete">>}

\* the turns of the council Q&A in the engine's transcript
QaTurns == SelectSeq(transcript, LAMBDA t : t.phase = "council_qa")

\* C9: once the council Q&A phase is over, its turns are council,
\* petitioner, council, petitioner when there is a council member (council,
\* council when there is no petitioner), and none when there is no council
\* member.
C9_CouncilQaTurns ==
    phaseIdx = 5 =>
      RolesOf(QaTurns) =
        IF HasRole(personas, "council_member")
        THEN IF HasRole(personas, "petitioner")
             THEN <<"council_member", "petitioner",
                    "council_member", "petitioner">>
             ELSE <<"council_member", "council_member">>
        ELSE <<>>

\* the council Q&A of a cast with a council member and a petitioner is over
C9_Witness ==
    /\ phaseIdx = 5
    /\ Len(QaTurns) = 4

\* C10: with R residents and no council member the transcript never has
\* more than R + 4 turns, so a completed run has at most R + 4.
C10_TurnsWithoutCouncil ==
    ~HasRole(personas, "council_member") =>
      Len(transcript) <= Len(_get_personas_by_role(personas, "resident")) + 4

\* a run without a council member is complete with exactly R + 4 turns, R > 0
C10_Witness ==
    /\ pc = "returning"
    /\ ~HasRole(personas, "council_member")
    /\ HasRole(personas, "resident")
    /\ Len(transcript) =
         Len(_get_personas_by_role(personas, "resident")) + 4

\* the generative call of the turn in progress fails in this step
GenerationFails == Answered /\ pc = "streaming" /\ pc' = "failed"

\* the run has been aborted by a failed generative call
GenerationFailed ==
    pc = "failed" /\ simulations[SID].error = GenerationError

C11_Step ==
    /\ GenerationFails =>
         /\ Status' = "error"
         /\ simulations'[SID].error = GenerationError
         /\ EventsOf({"error", "analysis", "complete"}) = <<>>
         /\ emitted' = Append(emitted, Event("error", "", 0))
         /\ transcript' = transcript
         /\ phaseIdx' = phaseIdx
    /\ GenerationFailed =>
         /\ analysisResult = NoResult /\ reply = NoReply
         /\ pc' \in {"failed", "done"}
         /\ simulations' = simulations
         /\ pc' = "failed" => emitted' = emitted /\ transcript' = transcript

\* C11: the step in which the generative call of a turn fails sets the
\* status to error with the message and hands one error event, the only one
\* of the run, to the broadcaster; from then on the run starts no turn,
\* enters no phase, attempts no analysis and emits no complete event: its
\* task can only end.
C11_GenerationFailureAborts == [][C11_Step]_vars

\* a run aborted by a failed generative call after a completed turn, with an
\* observer connected
C11_Witness ==
    /\ GenerationFailed
    /\ transcript # <<>>
    /\ ws[1] = "open"

\* the text of a stream of turn n of run `run` that completed
FullText(run, n) == [k \in 1..FragsPerTurn |-> Fragment(run, n, k)[1]]

\* the speaking_end events of the current run, by position, and the turns
\* they name
TurnEnds == {i \in DOMAIN emitted : emitted[i].type = "speaking_end"}
TurnsEnded == {emitted[i].turn : i \in TurnEnds}

\* C12: every turn of the engine transcript and of the session store
\* carries the whole text of a stream that completed, the turn-end events
\* are those of the turns of the transcript, one each, and after a stream
\* that failed with fragments delivered no turn of the transcript or of the
\* store holds these fragments and no turn-end event names the turn.
C12_TurnAllOrNothing ==
    /\ \A i \in DOMAIN transcript :
         transcript[i].content = FullText(RunNo, i)
    /\ \A i \in DOMAIN StoreTranscript :
         StoreTranscript[i].full_text =
           FullText(StoreTranscript[i].turn_id[1],
                    StoreTranscript[i].turn_id[2])
    /\ TurnsEnded = DOMAIN transcript
    /\ Cardinality(TurnEnds) = Len(transcript)
    /\ (GenerationFailed /\ fullText # <<>>) =>
         /\ \A i \in DOMAIN transcript :
              transcript[i].id # TurnId(RunNo, CurTurn)
         /\ \A i \in DOMAIN StoreTranscript :
              StoreTranscript[i].turn_id # TurnId(RunNo, CurTurn)
         /\ CurTurn \notin TurnsEnded

\* a stream has failed after a fragment, in a run with a completed turn
C12_Witness ==
    /\ GenerationFailed
    /\ fullText # <<>>
    /\ transcript # <<>>
    /\ StoreTranscript # <<>>

\* the result the tier that received the reply in hand makes of it
ResultOfReply ==
    CASE reply.tier = 1 -> analyze_debate(reply)
      [] reply.tier = 2 -> _fallback_analysis(reply)
      [] OTHER -> NoResult

\* what the chain does with a valid result of its tiers: the first tier's is
\* taken over from its response, the second tier is called only after a
\* first tier that raised or returned nothing, and its result is taken over
UsesFirstValidResult ==
    /\ (pc = "tier1" /\ pc' = "an_have") =>
         analysisResult' = ResultOfReply /\ ResultOfReply # NoResult
    /\ (pc = "tier1" /\ pc' = "tier2") =>
         ResultOfReply = NoResult /\ analysisResult' = NoResult
    /\ (pc = "tier2" /\ pc' = "an_set") =>
         analysisResult' = ResultOfReply /\ ResultOfReply # NoResult
    /\ (pc = "an_set" /\ pc' = "complete") =>
         simulations'[SID].analysis = analysisResult

\* a valid result of the first tier in hand is the one the run goes on with
KeepsFirstTierResult ==
    pc = "an_have" =>
      /\ analysisResult # NoResult
      /\ pc' \in {"an_have", "an_set"}
      /\ analysisResult' = analysisResult

\* C13: the second tier is invoked only when the first tier has produced no
\* valid result, a valid result of the first tier is the one used, and the
\* result of the second tier is used when the first had none.
C13_TierOrder == [][UsesFirstValidResult /\ KeepsFirstTierResult]_vars

\* the reply in hand is an object whose score is absent or no number
ScoreMissing ==
    reply.kind = "object" /\ reply.data.approval_score[1] # "number"

\* C14: a tier that received an object whose score field is absent or not
\* a number has failed: it has no result, whether it is the first tier,
\* after which the chain goes to the second, or the second.
C14_ScorelessTierFails ==
    ScoreMissing =>
      /\ pc = (IF reply.tier = 1 THEN "tier1" ELSE "tier2")
      /\ ResultOfReply = NoResult
      /\ analysisResult = NoResult

\* the reply in hand is an object that holds a number from 0 to 100 as
\* score and no other field
ScoreOnlyReply ==
    /\ reply.kind = "object"
    /\ reply.data.approval_score[1] = "number"
    /\ reply.data.approval_score[2] \in 0..100
    /\ reply.data = ScoreObject(reply.data.approval_score)

\* the result with score s and nothing but defaults
ScoreOnlyResult(s) ==
    [some |-> TRUE, approval_score |-> s, approval_label |-> "Uncertain",
     approval_reasoning |-> "", key_arguments |-> <<>>,
     recommended_rebuttals |-> <<>>, strongest_opposition_point |-> "",
     weakest_opposition_point |-> "", overall_assessment |-> ""]

\* C15: a tier that received an object with a score s in 0..100 and no
\* other field returns a result with score s, label "Uncertain", empty
\* lists and empty texts, and this is the result the run goes on with.
C15_ScoreOnlyResult ==
    [][ScoreOnlyReply =>
         /\ ResultOfReply = ScoreOnlyResult(reply.data.approval_score[2])
         /\ pc' # pc =>
              /\ pc' \in {"an_have", "an_set"}
              /\ analysisResult' = ResultOfReply]_vars

\* a tier has returned the result of an object with score 62 and nothing
\* else, and the run is about to store it
C15_Witness ==
    /\ pc = "an_set"
    /\ analysisResult = ScoreOnlyResult(62)
    /\ simulations[SID].analysis = NoResult

\* both tiers have been tried and neither has a result: the run is past
\* the second tier with nothing in hand
AllTiersFailed ==
    pc \in {"complete", "returning"} /\ analysisResult = NoResult

\* C16: once every tier has failed the run goes on to status complete and
\* one complete event and ends; the session holds no analysis result, the
\* run emits no analysis event and no error event, and the status does not
\* become error.
C16_AllTiersFailComplete ==
    [][AllTiersFailed =>
         /\ Status = (IF pc = "returning" THEN "complete" ELSE "analysis")
         /\ Len(EventsOf({"complete"})) = (IF pc = "returning" THEN 1 ELSE 0)
         /\ simulations[SID].analysis = NoResult
         /\ EventsOf({"analysis", "error"}) = <<>>
         /\ pc' \in {"complete", "returning", "done"}
         /\ Status' \in {"analysis", "complete"}]_vars

\* the run is suspended in the call of the first tier
InTier1 == pc = "tier1"

OnlyFailedDelivery ==
    /\ bc.active
    /\ bc.failed # {}
    /\ bc.late = {}
    /\ \A w \in DOMAIN ws \ bc.failed : ws[w] \in {"new", "open"}

\* C18: a send that raises does not reach the run: the broadcast goes on
\* and returns, every other observer of the session is sent the message,
\* and the observers whose send raised are out of the set when it returns.
C18_FailedDeliveryIsolated ==
    OnlyFailedDelivery =>
      /\ ~SetChanged
      /\ LoopEnds =>
           /\ Cleaned[SID] \cap bc.failed = {}
           /\ \A w \in Conns \ bc.failed : w \in bc.got

\* C19: an observer that connects while a broadcast is under way is not sent
\* its message, which was emitted before the observer joined.
C19_OnlyLaterEvents == bc.active => bc.late \cap bc.got = {}


\* C20: no run is aborted because of its observers: whoever connects or
\* disconnects, and whenever, the only error a session ever records is that
\* of a failed generation.
C20_RunDecoupled == simulations[SID].error \in {None, GenerationError}

\* caller c makes its call in this step
Calls(c) == calls[c] = NotCalled /\ calls'[c] # NotCalled

\* C21: a call of update_status, update_personas, add_transcript_turn,
\* set_analysis or set_error with an id no session has creates no session
\* and leaves every session as it was.
C21_UnknownIdNoOp ==
    [][\A c \in Callers :
         (Calls(c) /\ calls'[c].id \notin DOMAIN simulations) =>
           simulations' = simulations]_vars

\* set_error and update_status have been called with ids no session had,
\* beside a call that changed the session of the model
C21_Witness ==
    /\ \E c \in Callers :
         calls[c].op = "set_error" /\ calls[c].id = UnknownID
    /\ \E c \in Callers :
         calls[c].op = "update_status" /\ ~calls[c].known
    /\ simulations[SID] # NewSimulationState

\* the callers that appended a turn to the session id
Appenders(id) ==
    {c \in Callers : /\ calls[c].op = "add_transcript_turn"
                     /\ calls[c].id = id
                     /\ calls[c].known}

\* C22: whatever the order of concurrent add_transcript_turn calls, the turn
\* list of a session holds one turn for each call made on it, and each
\* caller's turn exactly once.
C22_AppendsSerialized ==
    \A id \in DOMAIN simulations :
      /\ Len(simulations[id].transcript) = Cardinality(Appenders(id))
      /\ \A c \in Appenders(id) :
           Cardinality({i \in DOMAIN simulations[id].transcript :
                          simulations[id].transcript[i] = CallTurn(c)}) = 1

\* every caller has appended to the session of the model, the last caller
\* first
C22_Witness ==
    /\ Appenders(SID) = Callers
    /\ StoreTranscript[1] = CallTurn(NumCallers)

\* the run task of the session is active
Running == ActiveTasks # {}

\* C23: a run that was started comes to an end with the status complete or
\* error, and a task ends in no other way: only after its complete event or
\* out of its error handler, the status being complete or error.
C23_RunTerminates ==
    /\ Running ~> (~Running /\ Status \in Terminal)
    /\ [][(Running /\ ~Running') =>
            /\ pc \in {"returning", "failed"}
            /\ Status' \in Terminal]_vars

\* a run has ended with the status complete
C23_Witness ==
    /\ tasks = <<"done">>
    /\ Status = "complete"

\* C24: in the context built for a turn, a prior turn whose content has at
\* most TruncateLimit (300) characters is rendered as it is, and a longer
\* one as exactly TruncateLimit characters: its first TruncateLimit - 3
\* characters and then the three of the ellipsis.
C24_Truncation ==
    pc = "streaming" =>
      \A i \in DOMAIN transcript :
        LET content == transcript[i].content
            rendered == context.prior[i].text
        IN  /\ Len(content) <= TruncateLimit => rendered = content
            /\ Len(content) > TruncateLimit =>
                 /\ Len(rendered) = TruncateLimit
                 /\ \A j \in 1..(TruncateLimit - 3) :
                      rendered[j] = content[j]
                 /\ \A j \in (TruncateLimit - 2)..TruncateLimit :
                      rendered[j] = 0

\* the context of the second turn renders a first turn that is longer than
\* the limit
C24_Witness ==
    /\ pc = "streaming"
    /\ Len(transcript[1].content) > TruncateLimit
    /\ Len(context.prior) = 1

\* C25: a run task is created only by the first connection that reaches the
\* endpoint of the session; a later connection joins and starts nothing.
C25_OnlyFirstStarts ==
    [][Len(tasks') > Len(tasks) => \A o \in Observers : ws[o] = "new"]_vars

\* the turns of a phase in the engine's transcript, and who spoke them
PhaseTurns(phase) == SelectSeq(transcript, LAMBDA t : t.phase = phase)

SpeakersOf(turns) == [i \in DOMAIN turns |-> turns[i].persona_id]

\* the personas of a role, and the one that comes first in the persona list
WithRole(role) == {i \in DOMAIN personas : personas[i] = role}

FirstOf(role) == CHOOSE i \in WithRole(role) : \A j \in WithRole(role) : i <= j

\* the first persona of the role as the one speaker, nobody when the cast
\* has no persona of the role
OnceIfPresent(role) ==
    IF WithRole(role) = {} THEN <<>> ELSE <<FirstOf(role)>>

\* C26: the turns of the public comment are spoken by residents only, in
\* the order of the persona list and none twice, and once the phase is over
\* every resident has spoken.
C26_PublicComment ==
    LET speakers == SpeakersOf(PhaseTurns("public_comment"))
    IN  /\ \A i \in DOMAIN speakers : speakers[i] \in WithRole("resident")
        /\ \A i, j \in DOMAIN speakers : i < j => speakers[i] < speakers[j]
        /\ phaseIdx < 2 => speakers = <<>>
        /\ phaseIdx > 2 =>
             {speakers[i] : i \in DOMAIN speakers} = WithRole("resident")

\* the public comment of a cast of two residents with somebody else between
\* them is over
C26_Witness ==
    /\ phaseIdx > 2
    /\ Len(PhaseTurns("public_comment")) = 2
    /\ personas[1] = "resident" /\ personas[2] # "resident"

\* C27: once the opening is over its turns are the first moderator of the
\* persona list and then the first petitioner, each once; a role the cast
\* does not have is left out, and before that the turns are a prefix of
\* these.
C27_Opening ==
    LET speakers == SpeakersOf(PhaseTurns("opening"))
        expected == OnceIfPresent("moderator") \o OnceIfPresent("petitioner")
    IN  /\ IsPrefix(speakers, expected)
        /\ phaseIdx > 1 => speakers = expected

\* the opening of a cast of a petitioner followed by two moderators is over:
\* the first moderator has spoken before the petitioner
C27_Witness ==
    /\ phaseIdx > 1
    /\ personas = <<"petitioner", "moderator", "moderator">>
    /\ SpeakersOf(PhaseTurns("opening")) = <<2, 1>>

\* C28: once the rebuttal is over its only turn is the first petitioner's,
\* and it has no turn when the cast has no petitioner; nobody speaks in it
\* before.
C28_Rebuttal ==
    LET speakers == SpeakersOf(PhaseTurns("rebuttal"))
    IN  /\ IsPrefix(speakers, OnceIfPresent("petitioner"))
        /\ phaseIdx < 3 => speakers = <<>>
        /\ phaseIdx > 3 => speakers = OnceIfPresent("petitioner")

\* the rebuttal of a cast with two petitioners is over
C28_Witness ==
    /\ phaseIdx > 3
    /\ Cardinality(WithRole("petitioner")) = 2
    /\ Len(PhaseTurns("rebuttal")) = 1

\* no turn of another phase follows a turn of the deliberation
DeliberationLast ==
    \A i, j \in DOMAIN transcript :
      (i < j /\ transcript[i].phase = "deliberation") =>
        transcript[j].phase = "deliberation"

\* who has spoken in the deliberation, and who speaks in it
DeliberationSpeakers == SpeakersOf(PhaseTurns("deliberation"))

DeliberationCast ==
    OnceIfPresent("moderator") \o OnceIfPresent("council_member")

\* C29: the turns of the deliberation are the moderator's and then the
\* council member's, each once and each only when the cast has the role;
\* no turn of the run comes after them: once run_debate has returned the
\* transcript gets no further turn.
C29_Deliberation ==
    [][/\ IsPrefix(DeliberationSpeakers, DeliberationCast)
       /\ DeliberationLast
       /\ DebateReturned =>
            /\ DeliberationSpeakers = DeliberationCast
            /\ transcript' = transcript \/ pc' = "done"]_vars

\* run_debate has returned after a deliberation of moderator and council
\* member
C29_Witness ==
    /\ DebateReturned
    /\ Len(PhaseTurns("deliberation")) = 2
    /\ Len(transcript) > 2

\* the events of the turns of the current run, in the order of emission
TurnEvents == EventsOf({"speaking_start", "token", "speaking_end"})

\* what may come next after an event of a turn: its tokens and its end after
\* its start, and after its end only the start of the turn that follows
Follows(e, f) ==
    IF e.type = "speaking_end"
    THEN f.type = "speaking_start" /\ f.turn = e.turn + 1
    ELSE f.type \in {"token", "speaking_end"} /\ f.turn = e.turn

\* C30: the events of the turns come turn by turn: start, tokens, end of
\* turn 1, then start, tokens, end of turn 2, and so on, so no turn starts
\* or streams while another is between its start and its end; and when the
\* start of turn n+1 has been emitted, turn n is in the engine's transcript
\* with the whole text of its stream and in the session store.
C30_TurnsSequential ==
    /\ TurnEvents # <<>> =>
         TurnEvents[1].type = "speaking_start" /\ TurnEvents[1].turn = 1
    /\ \A i \in 1..(Len(TurnEvents) - 1) :
         Follows(TurnEvents[i], TurnEvents[i + 1])
    /\ \A i \in DOMAIN TurnEvents :
         (TurnEvents[i].type = "speaking_start" /\ TurnEvents[i].turn > 1) =>
           LET n == TurnEvents[i].turn - 1
           IN  /\ n \in DOMAIN transcript
               /\ transcript[n].id = TurnId(RunNo, n)
               /\ transcript[n].content = FullText(RunNo, n)
               /\ \E k \in DOMAIN StoreTranscript :
                    StoreTranscript[k] = StoredTurn(transcript[n])

\* the start of the third turn is being sent to the observers
C30_Witness ==
    /\ pc = "turn_started"
    /\ CurTurn = 3
    /\ bc.active
    /\ Len(StoreTranscript) = 2

\* the texts of a list of events, one after the other
RECURSIVE Concat(_)
Concat(events) ==
    IF events = <<>>
    THEN <<>>
    ELSE Concat(SubSeq(events, 1, Len(events) - 1))
           \o events[Len(events)].text

\* the events of turn n of the current run, in the order of emission
EventsOfTurn(n) == SelectSeq(TurnEvents, LAMBDA e : e.turn = n)

\* the token events among them
TokensOfTurn(n) == SelectSeq(EventsOfTurn(n), LAMBDA e : e.type = "token")

\* C31: the events of a turn that has ended are its speaking_start, then
\* one token for each fragment of the stream, in the order of the stream,
\* then its speaking_end, all with the id of the turn and with nothing of
\* another turn in between; the text of the speaking_end, the content of
\* the turn in the transcript and the text stored for the turn in the
\* session are the texts of the tokens, one after the other.
C31_TurnEvents ==
    \A j \in DOMAIN TurnEvents :
      TurnEvents[j].type = "speaking_end" =>
        LET n == TurnEvents[j].turn
            mine == EventsOfTurn(n)
            tokens == TokensOfTurn(n)
        IN  /\ mine = <<mine[1]>> \o tokens \o <<TurnEvents[j]>>
            /\ mine[1].type = "speaking_start"
            /\ mine = SubSeq(TurnEvents, j + 1 - Len(mine), j)
            /\ \A k \in DOMAIN tokens :
                 tokens[k].text = Fragment(RunNo, n, k)
            /\ TurnEvents[j].text = Concat(tokens)
            /\ n \in DOMAIN transcript
            /\ transcript[n].id = TurnId(RunNo, n)
            /\ transcript[n].content = Concat(tokens)
            /\ \A k \in DOMAIN StoreTranscript :
                 StoreTranscript[k].turn_id = TurnId(RunNo, n) =>
                   StoreTranscript[k].full_text = Concat(tokens)

\* the second turn of a run has ended after three tokens and is stored
C31_Witness ==
    /\ Len(TokensOfTurn(2)) = 3
    /\ Len(transcript) = 2
    /\ Len(StoreTranscript) = 2

\* the positions in emitted of the events of a type
Positions(type) == {i \in DOMAIN emitted : emitted[i].type = type}

\* C32: a run emits at most one complete event and at most one error event
\* and never both, and its analysis event, if it has one, comes after every
\* speaking_end and before the complete event.
C32_CompleteXorError ==
    /\ Cardinality(Positions("complete")) <= 1
    /\ Cardinality(Positions("error")) <= 1
    /\ Positions("complete") = {} \/ Positions("error") = {}
    /\ \A a \in Positions("analysis") :
         /\ \A e \in Positions("speaking_end") : e < a
         /\ \A c \in Positions("complete") : a < c

\* the community research has come back without a result, or was abandoned:
\* research_community returned None, or its time box expired or it raised
ResearchFailed == pc \in {"research_none", "research_failed"}

\* C34: a community research that fails or runs out of time is not tried
\* again and does not end the run: from there no step moves the status to
\* error, and the run goes on to generating_personas.
C34_ResearchNonFatal ==
    [][/\ pc = "research_call" =>
            pc' \in {"research_call", "research_ok", "research_none",
                     "research_failed"}
       /\ ResearchFailed =>
            /\ pc' \in {"research_none", "research_failed", "research_done",
                        "gen_cb"}
            /\ Status' = "error" => Status = "error"
            /\ pc' = "gen_cb" => Status' = "generating_personas"]_vars

\* a call of a mutator for one session leaves every other session as it was
StoreCallIsLocal ==
    \A c \in Callers :
      Calls(c) =>
        \A b \in DOMAIN simulations \ {calls'[c].id} :
          b \in DOMAIN simulations' /\ simulations'[b] = simulations[b]

\* C33: sessions are independent: a mutation of the store for one session
\* and a broadcast for one session leave the state of every other session
\* unchanged, and a message broadcast for a session is sent to no websocket
\* opened on another session.
C33_SessionsIndependent ==
    [][/\ StoreCallIsLocal
       /\ bc' # bc => simulations' = simulations
       /\ \A w \in bc'.got : SessionOf(w) = bc'.id]_vars

\* a message for SID has been sent to both its websockets while a websocket
\* of the other session is connected, and the store was called for the
\* session beside a busy one
C33_Witness ==
    /\ bc.active /\ bc.id = SID /\ bc.got = {1, 3}
    /\ OtherSID \in DOMAIN connections
    /\ calls[1].op = "set_error" /\ calls[1].id = SID
    /\ simulations[OtherSID] = BusySimulationState

\* the reply in hand is an object whose score is a number outside 0..100
ScoreOutOfRange ==
    /\ reply.kind = "object"
    /\ reply.data.approval_score[1] = "number"
    /\ reply.data.approval_score[2] \notin 0..100

InRange(result) == result.some => result.approval_score \in 0..100

\* C35: the analysis result a session stores and the one the run broadcasts
\* have a score from 0 to 100: a tier that received a score outside that
\* range has failed and has no result.
C35_ScoreInRange ==
    /\ InRange(simulations[SID].analysis)
    /\ InRange(analysisResult)
    /\ ScoreOutOfRange =>
         /\ pc = (IF reply.tier = 1 THEN "tier1" ELSE "tier2")
         /\ ResultOfReply = NoResult
         /\ analysisResult = NoResult

\* the second tier has received a score above 100 after a first tier without
\* a result
C35_Witness ==
    /\ ScoreOutOfRange
    /\ reply.tier = 2
    /\ reply.data.approval_score[2] > 100

C37_ErrorIffStatus == (simulations[SID].error # None) <=> (Status = "error")

\* the speaking_end events of the current run, in the order of emission
SpeakingEnds == EventsOf({"speaking_end"})

\* the run is in a turn whose end is being announced and is not yet stored
TurnEnding == pc = "turn_ended"

\* the run task and with it the engine exist
EngineExists == pc \notin {"idle", "done"}

\* C38: the turn list of the session store follows the speaking order: its
\* k-th entry has the turn id and the full text of the k-th speaking_end
\* event, and it is the engine's transcript, turn by turn, except that the
\* turn whose end is being announced is not yet in it.
C38_StoreFollowsTurns ==
    EngineExists =>
      /\ \A k \in DOMAIN StoreTranscript :
           /\ k \in DOMAIN SpeakingEnds
           /\ StoreTranscript[k].turn_id = TurnId(RunNo, SpeakingEnds[k].turn)
           /\ StoreTranscript[k].full_text = SpeakingEnds[k].text
           /\ k \in DOMAIN transcript
           /\ StoreTranscript[k] = StoredTurn(transcript[k])
      /\ Len(StoreTranscript) =
           (IF TurnEnding THEN Len(transcript) - 1 ELSE Len(transcript))

\* the second turn has ended and is being announced, the first is stored
C38_Witness ==
    /\ TurnEnding
    /\ Len(transcript) = 2
    /\ Len(StoreTranscript) = 1
    /\ Len(SpeakingEnds) = 2

\* C39: the persona list run_simulation hands to the engine has a council
\* member, whether it is the SDK's or the default one, so the council Q&A
\* has at least two speakers' turns to run, and at least two turns once it
\* is over.
C39_CouncilPresent ==
    personas # <<>> =>
      /\ HasRole(personas, "council_member")
      /\ Len(_run_council_qa_phase(personas)) >= 2
      /\ phaseIdx > 4 => Len(PhaseTurns("council_qa")) >= 2

\* the council Q&A of a cast of six, the appended council member last, is
\* over with its four turns
C39_Witness ==
    /\ phaseIdx > 4
    /\ personas = <<"moderator", "petitioner", "resident", "resident",
                    "resident", "council_member">>
    /\ Len(PhaseTurns("council_qa")) = 4

\* the value of a factor in the call of the tool, 5 when it is missing
ValueOf(f) == IF tool.args[f][1] = "absent" THEN 5 ELSE tool.args[f][2]

\* ten times 50 + 10 * sum(weight * (value - 5)), the weights as claimed
ClaimedTenths ==
    500 + 25 * (ValueOf("petitioner_argument_quality") - 5)
        - 20 * (ValueOf("opposition_strength") - 5)
        + 20 * (ValueOf("council_receptiveness") - 5)
        + 15 * (ValueOf("economic_benefit_clarity") - 5)
        + 10 * (ValueOf("environmental_mitigation") - 5)
        + 10 * (ValueOf("community_benefit_offered") - 5)

\* C40: the score of the approval score tool, for factor values that are
\* integers from 0 to 10 and 5 for a missing factor, is
\* 50 + 10 * sum(weight * (value - 5)) with the weights +0.25, -0.20, +0.20,
\* +0.15, +0.10 and +0.10, clamped to 0..100; it lies in 0..100 and is 50
\* when every factor is 5.
C40_ApprovalScore ==
    tool.returned =>
      /\ tool.score = Max(0, Min(1000, ClaimedTenths))
      /\ tool.score \in 0..1000
      /\ (\A f \in FactorNames : ValueOf(f) = 5) => tool.score = 500

\* the tool has returned 72.5 for the best petitioner against no opposition,
\* the other factors missing
C40_Witness ==
    /\ tool.returned
    /\ tool.score = 725
    /\ tool.args.petitioner_argument_quality = Number(10)
    /\ tool.args.opposition_strength = Number(0)
    /\ \A f \in FactorNames \ {"petitioner_argument_quality",
                                "opposition_strength"} :
         tool.args[f] = Absent(0)

====
